---- MODULE Spec2Model ----
(***************************************************************************)
(* Model of the clip-generation job pipeline of ClipAiServer:              *)
(*   app/api/routes.py            generate_clip (submission), status,      *)
(*                                download_clip, delete_job_clips          *)
(*   app/services/clip_generator.py   ClipGenerator.generate_clip, the     *)
(*                                    background run, and its job writes   *)
(*   app/services/downloader.py, storage.py, clipsai_*_service.py          *)
(*                                                                         *)
(* One background run per submitted job; the runs of different jobs and    *)
(* the API handlers interleave at the granularity of one pipeline stage.   *)
(* Every job-record write is one database transaction (one commit), hence  *)
(* one atomic step.  The three ClipsAI services and the HTTP server are    *)
(* black boxes: their outcome is a nondeterministic input of the step      *)
(* that calls them.                                                        *)
(***************************************************************************)
EXTENDS Integers, Sequences, FiniteSets, TLC

\* ------------------------------------------------------------------ bounds

\* Longest list of clips the segmentation black box returns in the model.
MaxSegs == 3

\* Job ids handed out by uuid.uuid4() (routes.py:63): fresh, never reused.
JobIds == {"j1", "j2"}

\* ------------------------------------------------------------ plain values

\* Python None / SQL NULL, and a set value, for a nullable column.
None == <<>>
Some(x) == <<x>>

\* JobStatus (models/clip_job.py:19-24)
PENDING    == "pending"
PROCESSING == "processing"
COMPLETED  == "completed"
FAILED     == "failed"

\* settings.temp_upload_dir / AsyncVideoDownloader.cache_dir, settings.clips_output_dir
CacheDir  == "./temp_uploads"
OutputDir == "./clips_output"

\* A video reference as urlparse sees it (a local path has scheme and netloc
\* empty); the basename is kept as stem and extension (ext is "" or ".xyz").
Loc(scheme, netloc, dir, stem, ext) ==
    [scheme |-> scheme, netloc |-> netloc, dir |-> dir, stem |-> stem, ext |-> ext]

LocalPath(dir, stem, ext) == Loc("", "", dir, stem, ext)

\* str() of a reference
LocStr(p) ==
    IF p.scheme = "" THEN p.dir \o "/" \o p.stem \o p.ext
    ELSE p.scheme \o "://" \o p.netloc \o p.dir \o "/" \o p.stem \o p.ext

UrlVideo     == Loc("https", "cdn.example", "/media", "talk", ".mp4")
LocalVideo   == LocalPath("/videos", "talk", ".mp4")
MissingVideo == LocalPath("/videos", "missing", ".mp4")

\* An existing directory given as the video of a job
DirectoryVideo == LocalPath("/videos", "talks", "")
Directories == {DirectoryVideo}

\* A caller's own file outside the download cache, in a directory whose name
\* contains the text temp_uploads
LookalikeVideo == LocalPath("/data/temp_uploads_old", "talk", ".mp4")

\* request.video_path values submitted in the model
InputRefs == {UrlVideo, LocalVideo, MissingVideo}

\* request.video_path values submitted in addition where deletion is examined
DeleteRefs == {LookalikeVideo}

\* Files that exist before any job is submitted
InitialFiles == {LocalVideo, LookalikeVideo}

\* request.video_path values submitted in addition where the checks of the
\* stage wrappers are examined
LocalRefs == {DirectoryVideo}

NoPath == LocalPath("", "", "")

\* ------------------------------------------------------ pure helper functions

\* AsyncVideoDownloader.is_url
IsUrl(p) == p.scheme \in {"http", "https"} /\ p.netloc # ""

\* StorageService.file_exists / os.path.exists
FileExists(fs, p) == p \in fs

\* Mutant of IsRegularFile: any existing path counts as a file
IsRegularFileAcceptsDirectory(fs, p) == p \in fs

\* os.path.isfile
IsRegularFile(fs, p) == p \in fs /\ p \notin Directories

\* Clip objects returned by ClipFinder: consecutive spans of the transcript;
\* span i is [i(i-1)/2, i(i+1)/2], so spans differ in start, end and length.
Boundary(i) == (i * (i + 1)) \div 2

\* The list of n clips; when bad > 0 clip number bad is degenerate (start = end).
Timeline(n, bad) ==
    [i \in 1..n |-> [start_time |-> Boundary(i - 1),
                     end_time   |-> IF i = bad THEN Boundary(i - 1) ELSE Boundary(i)]]

\* What clip_finder.find_clips may return
DetectedLists == {Timeline(n, bad) : n \in 0..MaxSegs, bad \in 0..MaxSegs}

\* Clips whose times MediaEditorService.trim refuses: a negative start, an end
\* before the start, an empty span
Clip(start_time, end_time) == [start_time |-> start_time, end_time |-> end_time]
InvalidClips == {Clip(0 - 1, 2), Clip(3, 1), Clip(2, 2)}

\* Lists find_clips may return that hold such a clip, alone or beside a valid one
MixedLists ==
    UNION {{<<bad>>, <<bad, Clip(0, 1)>>, <<Clip(0, 1), bad>>} : bad \in InvalidClips}

\* f"{idx:03d}"
Pad3(i) ==
    IF i < 10 THEN "00" \o ToString(i)
    ELSE IF i < 100 THEN "0" \o ToString(i)
    ELSE ToString(i)

\* f"clip_{job_id}_{idx:03d}.mp4"  (clip_generator.py:237)
ClipFilename(job_id, idx) == "clip_" \o job_id \o "_" \o Pad3(idx) \o ".mp4"

\* The filenames of the model that are absolute paths
AbsoluteNames == {"/srv/shared/clip.mp4"}

\* job_dir = self.output_dir / job_id  (storage.py:69)
JobDir(job_id) == OutputDir \o "/" \o job_id

\* job_dir.mkdir(parents=True, exist_ok=True)  (storage.py:70)
MakeJobDir(existing, job_id) == existing \cup {JobDir(job_id)}

\* StorageService.get_output_path, the value returned: str(job_dir / filename).
\* Joining a pathlib path with an absolute path gives the absolute path alone.
GetOutputPath(job_id, filename) ==
    IF filename \in AbsoluteNames THEN filename ELSE JobDir(job_id) \o "/" \o filename

\* An HTTP response as the downloader reads it: the filename of a
\* content-disposition header (None when the header is absent) and the content type.
Response(cd, ctype) == [content_disposition |-> cd, content_type |-> ctype]

Responses == {Response(None, "video/mp4")}

\* datetime.now().strftime("%Y%m%d_%H%M%S") at download time
Timestamps == {"20240101_120000"}

\* AsyncVideoDownloader._get_extension
GetExtension(response) ==
    CASE response.content_type = "video/mp4"                -> ".mp4"
      [] response.content_type = "video/quicktime"          -> ".mov"
      [] response.content_type = "video/x-msvideo"          -> ".avi"
      [] response.content_type = "video/x-matroska"         -> ".mkv"
      [] response.content_type = "video/webm"               -> ".webm"
      [] response.content_type = "video/mpeg"               -> ".mpeg"
      [] response.content_type = "application/octet-stream" -> ".mp4"
      [] OTHER                                              -> ".mp4"

\* AsyncVideoDownloader._generate_filename: the content-disposition filename,
\* else the URL basename when it has a dot, else video_<timestamp><extension>.
GenerateFilename(url, response, timestamp) ==
    IF response.content_disposition # None
         /\ response.content_disposition[1].stem \o response.content_disposition[1].ext # ""
    THEN response.content_disposition[1]
    ELSE IF url.stem \o url.ext # "" /\ url.ext # ""
    THEN [stem |-> url.stem, ext |-> url.ext]
    ELSE [stem |-> "video_" \o timestamp, ext |-> GetExtension(response)]

\* output_path = self.cache_dir / filename  (downloader.py:90)
CachePath(filename) == LocalPath(CacheDir, filename.stem, filename.ext)

\* Mutant of TrimParamsValid: only negative starts are refused
TrimParamsValidStartOnly(start_time, end_time) == start_time >= 0

\* MediaEditorService.trim, parameter validation (clipsai_mediaeditor_service.py:155-162)
TrimParamsValid(start_time, end_time) == start_time >= 0 /\ start_time < end_time

\* The metadata appended for a trimmed clip (clip_generator.py:253-260)
ClipMetadata(job_id, idx, clip) ==
    [filename   |-> ClipFilename(job_id, idx),
     path       |-> GetOutputPath(job_id, ClipFilename(job_id, idx)),
     start_time |-> clip.start_time,
     end_time   |-> clip.end_time,
     duration   |-> clip.end_time - clip.start_time]

\* ------------------------------------------------------------ the job record

\* ClipJob(job_id, status=PENDING, input_file, status_message) with the column
\* defaults of models/clip_job.py:45-54  (routes.py:66-71)
NewClipJob(video_path) ==
    [status          |-> PENDING,
     input_file      |-> video_path,
     status_message  |-> "Aguardando processamento",
     generated_clips |-> <<>>,
     error_message   |-> None,
     completed_at    |-> None]

\* The assignments of ClipGenerator._update_job_status
UpdateJobStatus(job, status, message) ==
    [job EXCEPT !.status = status, !.status_message = message]

\* Mutant of UpdateJobSuccess: completed_at is not stamped
UpdateJobSuccessNoCompletedAt(job, generated_clips) ==
    [job EXCEPT !.status = COMPLETED,
                !.status_message = "Concluído: " \o ToString(Len(generated_clips))
                                       \o " clips gerados",
                !.generated_clips = generated_clips]

\* The assignments of ClipGenerator._update_job_success
UpdateJobSuccess(job, generated_clips) ==
    [job EXCEPT !.status = COMPLETED,
                !.status_message = "Concluído: " \o ToString(Len(generated_clips))
                                       \o " clips gerados",
                !.generated_clips = generated_clips,
                !.completed_at = Some("utcnow")]

\* Mutant of UpdateJobFailure: the error message is put in status_message only
UpdateJobFailureNoMessage(job, error_message) ==
    [job EXCEPT !.status = FAILED,
                !.status_message = "Erro: " \o error_message,
                !.completed_at = Some("utcnow")]

\* The assignments of ClipGenerator._update_job_failure
UpdateJobFailure(job, error_message) ==
    [job EXCEPT !.status = FAILED,
                !.error_message = Some(error_message),
                !.status_message = "Erro: " \o error_message,
                !.completed_at = Some("utcnow")]

\* ------------------------------------------------------------------- state

VARIABLES
    db,           \* the clip_jobs table: job_id -> committed row
    dbUp,         \* FALSE while the database refuses queries and commits
    files,        \* input videos on disk (local files and the download cache)
    clipFiles,    \* clip files on disk, by path
    pc,           \* per job: where its background run generate_clip stands
    video_path,   \* per job: the local variable video_path of generate_clip
    clips,        \* per job: the clips returned by find_clips
    idx,          \* per job: the loop index of _trim_clips
    generated,    \* per job: generated_clips of _trim_clips
    err,          \* per job: str(e) of the exception on its way to the handler
    calls,        \* per job: the stage calls made so far and how each ended (history)
    locked,       \* the files on disk whose unlink raises OSError
    reply,        \* per job: the answer of DELETE /api/clips/delete/{job_id}, if given
    answer,       \* what the caller of the last submit, status, download or direct
                  \* service call got back
    dirs          \* the directories that exist under the clips output directory

vars == <<db, dbUp, files, clipFiles, pc, video_path, clips, idx, generated,
          err, calls, locked, reply, answer, dirs>>

runVars == <<video_path, clips, idx, generated, err, calls>>

\* What a caller got back: the operation, the job id it named, the HTTP status
\* code (0 for a direct call of a service method) and the body, None when the
\* call returned None.
Answer(op, job_id, code, body) ==
    [op |-> op, job_id |-> job_id, code |-> code, body |-> body]

NoResponse == Answer("none", "", 0, None)

Init ==
    /\ db = << >>
    /\ dbUp = TRUE
    /\ files = InitialFiles
    /\ clipFiles = {}
    /\ pc = [j \in JobIds |-> "new"]
    /\ video_path = [j \in JobIds |-> NoPath]
    /\ clips = [j \in JobIds |-> <<>>]
    /\ idx = [j \in JobIds |-> 0]
    /\ generated = [j \in JobIds |-> <<>>]
    /\ err = [j \in JobIds |-> ""]
    /\ calls = [j \in JobIds |-> {}]
    /\ locked = [inputs |-> {}, clips |-> {}]
    /\ reply = [j \in JobIds |-> None]
    /\ answer = NoResponse
    /\ dirs = {}

\* db.query(ClipJob).filter(ClipJob.job_id == job_id).first() is not None
HasJob(j) == j \in DOMAIN db

\* A job write of ClipGenerator (_update_job_status/_success/_failure): query the
\* row, assign, commit; a missing row is skipped, and an exception of the query or
\* the commit is logged and rolled back, leaving the committed row as it was.
WriteJob(j, row) ==
    IF HasJob(j) /\ dbUp
    THEN db' = [db EXCEPT ![j] = row]
    ELSE db' = db

\* raise inside the try block of generate_clip: control goes to the handler
Raise(j, message) ==
    /\ err' = [err EXCEPT ![j] = message]
    /\ pc' = [pc EXCEPT ![j] = "except"]

Goto(j, label) == pc' = [pc EXCEPT ![j] = label]

\* A stage call recorded in the history: the service, its argument (the clip
\* index of a trim, the number of clips find_clips returned) and how it ended:
\* "rejected" when the service wrapper raised before calling the black box,
\* else the outcome of the black box.
Call(box, arg, result) == [box |-> box, arg |-> arg, result |-> result]

Record(j, box, arg, result) ==
    calls' = [calls EXCEPT ![j] = @ \cup {Call(box, arg, result)}]

\* The directory names of the model that contain the text temp_uploads
TempUploadsDirs == {CacheDir, LookalikeVideo.dir}

\* "temp_uploads" in str(input_file)  (routes.py:423): a substring test on the
\* whole path, tabulated over the directories of the model (no stem or
\* extension of the model contains the text).
ContainsTempUploads(p) == p.dir \in TempUploadsDirs

\* path.unlink() / os.remove(path) on the set fs of existing files: a locked
\* file stays and the call raises OSError
Unlink(fs, p, lockedSet) == IF p \in lockedSet THEN fs ELSE fs \ {p}

\* ------------------------------------------------------------- submission

\* ClipGenerationResponse(job_id, status=JobStatus.PENDING.value, ...)
\* (routes.py:82-86)
ClipGenerationResponse(job_id) == [job_id |-> job_id, status |-> PENDING]

\* POST /api/clips/generate (routes.py:61-93): insert the pending row, commit,
\* queue the background run.  A failed commit answers 400 and queues nothing.
\* Job ids are fresh uuids: j2 names the second id handed out.
Submit(j, ref) ==
    /\ pc[j] = "new"
    /\ \A k \in JobIds : (k # j /\ pc[k] = "new") => j = "j1"
    /\ IF dbUp
       THEN /\ db' = [k \in DOMAIN db \cup {j} |->
                        IF k = j THEN NewClipJob(ref) ELSE db[k]]
            /\ pc' = [pc EXCEPT ![j] = "queued"]
            /\ video_path' = [video_path EXCEPT ![j] = ref]
            /\ answer' = Answer("generate", j, 200, Some(ClipGenerationResponse(j)))
       ELSE /\ pc' = [pc EXCEPT ![j] = "rejected"]
            /\ answer' = Answer("generate", j, 400, None)
            /\ UNCHANGED <<db, video_path>>
    /\ UNCHANGED <<dbUp, locked, reply, dirs, files, clipFiles, clips, idx, generated,
                   err, calls>>

\* POST /api/clips/generate when ClipGenerator(db) raises (routes.py:77): the
\* services import ClipsAI in their constructors (clip_generator.py:66-68) and
\* raise ImportError or the initialisation error.  The row is committed by then
\* (routes.py:72-74); the handler answers 400 and queues nothing.
SubmitThenInitFails(j, ref) ==
    /\ pc[j] = "new"
    /\ \A k \in JobIds : (k # j /\ pc[k] = "new") => j = "j1"
    /\ dbUp
    /\ db' = [k \in DOMAIN db \cup {j} |-> IF k = j THEN NewClipJob(ref) ELSE db[k]]
    /\ pc' = [pc EXCEPT ![j] = "rejected"]
    /\ answer' = Answer("generate", j, 400, None)
    /\ UNCHANGED <<dbUp, locked, reply, dirs, files, clipFiles, video_path, clips, idx,
                   generated, err, calls>>

\* ------------------------------------------- the background run, stage 1

\* Mutant of Stage1Begin: a local path is not checked for existence
Stage1BeginNoExistsCheck(j) ==
    /\ pc[j] = "queued"
    /\ IF IsUrl(video_path[j])
       THEN /\ WriteJob(j, UpdateJobStatus(db[j], PROCESSING, "Baixando vídeo da web..."))
            /\ Goto(j, "download")
       ELSE /\ Goto(j, "setinput")
            /\ UNCHANGED db
    /\ UNCHANGED <<dbUp, locked, reply, answer, dirs, files, clipFiles, video_path, clips, idx,
                   generated, err, calls>>

\* clip_generator.py:100-127: a URL marks the job processing and goes on to the
\* download; a local path is only checked for existence.
Stage1Begin(j) ==
    /\ pc[j] = "queued"
    /\ IF IsUrl(video_path[j])
       THEN /\ WriteJob(j, UpdateJobStatus(db[j], PROCESSING, "Baixando vídeo da web..."))
            /\ Goto(j, "download")
            /\ UNCHANGED err
       ELSE /\ IF ~FileExists(files, video_path[j])
               THEN Raise(j, "Input video file not found: " \o LocStr(video_path[j]))
               ELSE Goto(j, "setinput") /\ UNCHANGED err
            /\ UNCHANGED db
    /\ UNCHANGED <<dbUp, locked, reply, answer, dirs, files, clipFiles, video_path, clips, idx, generated, calls>>

\* What the server and the network make of one download
DownloadOutcomes ==
    {"ok", "http_error", "too_large_header", "too_large_stream", "error_midstream"}

\* Mutant of DownloadFiles: the destination is opened before the advertised
\* content-length is compared with the limit
DownloadFilesOpenBeforeSizeCheck(fs, out, outcome, lockedSet) ==
    CASE outcome = "http_error"       -> fs
      [] outcome = "too_large_stream" -> Unlink(fs \cup {out}, out, lockedSet)
      [] OTHER                        -> fs \cup {out}

\* The cache directory after download_video ended with the given outcome
\* (downloader.py:77-106), out being cache_dir / filename:
\*   http_error        raise_for_status / connection error: nothing written
\*   too_large_header  advertised content-length over the limit: nothing written
\*   too_large_stream  running size over the limit: the file is unlinked
\*   error_midstream   the stream breaks after a chunk was written: the file stays
\*   ok                the whole body was written
DownloadFiles(fs, out, outcome, lockedSet) ==
    CASE outcome \in {"http_error", "too_large_header"} -> fs
      [] outcome = "too_large_stream" -> Unlink(fs \cup {out}, out, lockedSet)
      [] OTHER                        -> fs \cup {out}

\* str(e) of the exception a failed download_video raises
DownloadError(out, outcome, lockedSet) ==
    CASE outcome = "http_error"       -> "404, message='Not Found'"
      [] outcome = "too_large_header" -> "File too large: 4096.00MB > 2048MB limit"
      [] outcome = "too_large_stream" ->
             IF out \in lockedSet
             THEN "[Errno 13] Permission denied: '" \o LocStr(out) \o "'"
             ELSE "File exceeded 2048MB limit"
      [] OTHER                        -> "Response payload is not completed"

\* cache_dir / filename for the download of job j (downloader.py:89-90)
DownloadTarget(j, response, timestamp) ==
    CachePath(GenerateFilename(video_path[j], response, timestamp))

\* Mutant of Download: a download that failed on the HTTP status is tried again
DownloadRetriesOnError(j, outcome, response, timestamp) ==
    LET out == DownloadTarget(j, response, timestamp) IN
    /\ pc[j] = "download"
    /\ Record(j, "download", 0, outcome)
    /\ files' = DownloadFiles(files, out, outcome, locked.inputs)
    /\ IF outcome = "ok"
       THEN /\ video_path' = [video_path EXCEPT ![j] = out]
            /\ Goto(j, "setinput")
            /\ UNCHANGED err
       ELSE IF outcome = "http_error"
       THEN UNCHANGED <<pc, err, video_path>>
       ELSE /\ Raise(j, "Download failed: " \o DownloadError(out, outcome, locked.inputs))
            /\ UNCHANGED video_path
    /\ UNCHANGED <<db, dbUp, locked, reply, answer, dirs, clipFiles, clips, idx, generated>>

\* AsyncVideoDownloader.download_video as called at clip_generator.py:112-120:
\* the path of the written file on success, else
\* raise Exception(f"Download failed: {str(e)}").
Download(j, outcome, response, timestamp) ==
    LET out == DownloadTarget(j, response, timestamp) IN
    /\ pc[j] = "download"
    /\ Record(j, "download", 0, outcome)
    /\ files' = DownloadFiles(files, out, outcome, locked.inputs)
    /\ IF outcome = "ok"
       THEN /\ video_path' = [video_path EXCEPT ![j] = out]
            /\ Goto(j, "setinput")
            /\ UNCHANGED err
       ELSE /\ Raise(j, "Download failed: " \o DownloadError(out, outcome, locked.inputs))
            /\ UNCHANGED video_path
    /\ UNCHANGED <<db, dbUp, locked, reply, answer, dirs, clipFiles, clips, idx, generated>>

\* Mutant of SetInputFile: the row keeps the reference that was submitted
SetInputFileKeepsReference(j) ==
    /\ pc[j] = "setinput"
    /\ IF ~dbUp
       THEN Raise(j, "(sqlite3.OperationalError) unable to open database file")
       ELSE Goto(j, "stage2") /\ UNCHANGED err
    /\ UNCHANGED <<db, dbUp, locked, reply, answer, dirs, files, clipFiles, video_path, clips, idx,
                   generated, calls>>

\* clip_generator.py:129-135: store the resolved path in the row.  The query and
\* the commit are not guarded here: their exception goes to the handler.
SetInputFile(j) ==
    /\ pc[j] = "setinput"
    /\ IF ~dbUp
       THEN Raise(j, "(sqlite3.OperationalError) unable to open database file")
            /\ UNCHANGED db
       ELSE /\ IF HasJob(j)
               THEN db' = [db EXCEPT ![j].input_file = video_path[j]]
               ELSE db' = db
            /\ Goto(j, "stage2")
            /\ UNCHANGED err
    /\ UNCHANGED <<dbUp, locked, reply, answer, dirs, files, clipFiles, video_path, clips, idx, generated, calls>>

\* ------------------------------------------------------ stages 2 and 3

\* clip_generator.py:138-142
Stage2Begin(j) ==
    /\ pc[j] = "stage2"
    /\ WriteJob(j, UpdateJobStatus(db[j], PROCESSING, "Transcrevendo vídeo com WhisperX..."))
    /\ Goto(j, "transcribe")
    /\ UNCHANGED <<dbUp, locked, reply, answer, dirs, files, clipFiles, runVars>>

\* What the transcription black box does when it is called, and str(e) of
\* the exception it raises
TranscribeOutcomes == {"ok", "error"}
TranscribeError == "WhisperX out of memory"

\* Mutant of Transcribe: the exception of the black box is logged and swallowed
TranscribeSwallowsError(j, outcome) ==
    /\ pc[j] = "transcribe"
    /\ Record(j, "transcribe", 0, outcome)
    /\ Goto(j, "stage3")
    /\ UNCHANGED <<db, dbUp, locked, reply, answer, dirs, files, clipFiles, video_path, clips, idx, generated, err>>

\* TranscriberService.transcribe as called at clip_generator.py:145-155: the
\* wrapper raises for a missing path, and for a path that is not a regular
\* file, before the black box is called.
Transcribe(j, outcome) ==
    /\ pc[j] = "transcribe"
    /\ IF ~FileExists(files, video_path[j])
       THEN /\ Raise(j, "Transcription failed: Audio file not found: "
                           \o LocStr(video_path[j]))
            /\ Record(j, "transcribe", 0, "rejected")
       ELSE IF ~IsRegularFile(files, video_path[j])
       THEN /\ Raise(j, "Transcription failed: Path is not a file: "
                           \o LocStr(video_path[j]))
            /\ Record(j, "transcribe", 0, "rejected")
       ELSE /\ Record(j, "transcribe", 0, outcome)
            /\ IF outcome = "ok"
               THEN Goto(j, "stage3") /\ UNCHANGED err
               ELSE Raise(j, "Transcription failed: " \o TranscribeError)
    /\ UNCHANGED <<db, dbUp, locked, reply, answer, dirs, files, clipFiles, video_path, clips, idx, generated>>

\* clip_generator.py:158-162
Stage3Begin(j) ==
    /\ pc[j] = "stage3"
    /\ WriteJob(j, UpdateJobStatus(db[j], PROCESSING, "Detectando clips com TextTiling..."))
    /\ Goto(j, "find_clips")
    /\ UNCHANGED <<dbUp, locked, reply, answer, dirs, files, clipFiles, runVars>>

\* What the segmentation black box does: it raises (with str(e) FindError), or
\* returns a list of clips
FindOutcomes == {"ok", "error"}
FindError == "embedding model not available"

\* Mutant of AfterFind: an empty list of clips goes on to stage 4
AfterFindNoEmptyCheck(j, found) == Goto(j, "stage4") /\ UNCHANGED err

\* if not clips: raise Exception("No clips detected in transcription")
\* (clip_generator.py:173-174)
AfterFind(j, found) ==
    IF found = <<>>
    THEN Raise(j, "No clips detected in transcription")
    ELSE Goto(j, "stage4") /\ UNCHANGED err

\* ClipFinderService.find_clips as called at clip_generator.py:165-174
FindClips(j, outcome, found) ==
    /\ pc[j] = "find_clips"
    /\ IF outcome = "error"
       THEN /\ Record(j, "find_clips", 0, "error")
            /\ Raise(j, "Clip finding failed: " \o FindError)
            /\ UNCHANGED clips
       ELSE /\ Record(j, "find_clips", Len(found), "ok")
            /\ clips' = [clips EXCEPT ![j] = found]
            /\ AfterFind(j, found)
    /\ UNCHANGED <<db, dbUp, locked, reply, answer, dirs, files, clipFiles, video_path, idx, generated>>

\* ------------------------------------------------------------- stage 4

\* clip_generator.py:177-181, then the head of _trim_clips (:228-233):
\* create_audio_video_file raises FileNotFoundError for a missing video.
Stage4Begin(j) ==
    /\ pc[j] = "stage4"
    /\ WriteJob(j, UpdateJobStatus(db[j], PROCESSING,
                     "Gerando " \o ToString(Len(clips[j])) \o " clips..."))
    /\ Goto(j, "trim_open")
    /\ UNCHANGED <<dbUp, locked, reply, answer, dirs, files, clipFiles, runVars>>

\* Mutant of AfterTrim: break instead of continue when the trim of clip i raised
AfterTrimBreakOnFailure(j, i, ok, produced) ==
    IF i < Len(clips[j]) /\ ok
    THEN Goto(j, "trim") /\ UNCHANGED err
    ELSE IF produced = <<>>
    THEN Raise(j, "Failed to generate any clips")
    ELSE Goto(j, "store") /\ UNCHANGED err

\* Mutant of AfterTrim: an empty generated_clips is stored as a success
AfterTrimNoEmptyCheck(j, i, ok, produced) ==
    IF i < Len(clips[j])
    THEN Goto(j, "trim") /\ UNCHANGED err
    ELSE Goto(j, "store") /\ UNCHANGED err

\* The loop of _trim_clips after clip i was handled (i = 0: before the first):
\* on to the next clip, whether or not the trim of clip i raised; after the last
\* one return generated_clips, and clip_generator.py:190-191 raises when the
\* list is empty.
AfterTrim(j, i, ok, produced) ==
    IF i < Len(clips[j])
    THEN Goto(j, "trim") /\ UNCHANGED err
    ELSE IF produced = <<>>
    THEN Raise(j, "Failed to generate any clips")
    ELSE Goto(j, "store") /\ UNCHANGED err

TrimOpen(j) ==
    /\ pc[j] = "trim_open"
    /\ IF ~FileExists(files, video_path[j])
       THEN Raise(j, "Video file not found: " \o LocStr(video_path[j]))
            /\ UNCHANGED <<idx, generated>>
       ELSE /\ idx' = [idx EXCEPT ![j] = 1]
            /\ generated' = [generated EXCEPT ![j] = <<>>]
            /\ AfterTrim(j, 0, TRUE, <<>>)
    /\ UNCHANGED <<db, dbUp, locked, reply, answer, dirs, files, clipFiles, video_path, clips, calls>>

\* What the trim black box does when it is called
TrimOutcomes == {"ok", "error"}

\* Mutant of TrimResult: the metadata of a trimmed clip is put first in the list
TrimResultPrepend(j, i, ok) ==
    IF ok THEN <<ClipMetadata(j, i, clips[j][i])>> \o generated[j] ELSE generated[j]

\* Mutant of TrimResult: the metadata is appended whether or not the trim raised
TrimResultAppendAlways(j, i, ok) ==
    Append(generated[j], ClipMetadata(j, i, clips[j][i]))

\* Mutant of TrimResult: a clip is numbered by its place among the clips made
TrimResultNumbersByOutput(j, i, ok) ==
    IF ok THEN Append(generated[j],
                      ClipMetadata(j, Len(generated[j]) + 1, clips[j][i]))
    ELSE generated[j]

\* The clips generated so far after the trim of clip i ended as it did
\* (clip_generator.py:253-269): appended on success, skipped on an exception.
TrimResult(j, i, ok) ==
    IF ok THEN Append(generated[j], ClipMetadata(j, i, clips[j][i])) ELSE generated[j]

\* Mutant of TrimOutput: the output of a failed trim is left where it is
TrimOutputKeepsPartial(disk, out, outcome, partial, lockedSet) ==
    IF outcome = "ok" \/ partial THEN disk \cup {out} ELSE disk

\* The clip files after the black box was called for output path out
\* (clipsai_mediaeditor_service.py:175-201): written on success; when the call
\* raised, a partial output (there may be one or none) is removed with
\* os.remove, whose OSError is passed over.
TrimOutput(disk, out, outcome, partial, lockedSet) ==
    IF outcome = "ok" THEN disk \cup {out}
    ELSE Unlink(IF partial THEN disk \cup {out} ELSE disk, out, lockedSet)

\* One iteration of the loop of _trim_clips (clip_generator.py:235-269) with
\* MediaEditorService.trim: invalid times raise before the black box is called;
\* a failed black-box call has its partial output removed.
TrimClip(j, outcome) ==
    LET i    == idx[j]
        clip == clips[j][i]
        out  == GetOutputPath(j, ClipFilename(j, i))
        ok   == TrimParamsValid(clip.start_time, clip.end_time) /\ outcome = "ok"
    IN
    /\ pc[j] = "trim"
    /\ i <= Len(clips[j])
    /\ IF TrimParamsValid(clip.start_time, clip.end_time)
       THEN /\ Record(j, "trim", i, outcome)
            /\ \E partial \in BOOLEAN :
                   clipFiles' = TrimOutput(clipFiles, out, outcome, partial, locked.clips)
       ELSE /\ outcome = "error"
            /\ Record(j, "trim", i, "rejected")
            /\ UNCHANGED clipFiles
    /\ generated' = [generated EXCEPT ![j] = TrimResult(j, i, ok)]
    /\ idx' = [idx EXCEPT ![j] = i + 1]
    /\ AfterTrim(j, i, ok, TrimResult(j, i, ok))
    /\ dirs' = MakeJobDir(dirs, j)
    /\ UNCHANGED <<db, dbUp, locked, reply, answer, files, video_path, clips>>

\* ------------------------------------------- stage 5 and the handler

\* Mutant of Stage5Store: a statement after the success write raises inside the try
Stage5StoreThenRaise(j) ==
    /\ pc[j] = "store"
    /\ WriteJob(j, UpdateJobSuccess(db[j], generated[j]))
    /\ Raise(j, "logging failed")
    /\ UNCHANGED <<dbUp, locked, reply, answer, dirs, files, clipFiles, video_path, clips, idx, generated, calls>>

\* clip_generator.py:193-198
Stage5Store(j) ==
    /\ pc[j] = "store"
    /\ WriteJob(j, UpdateJobSuccess(db[j], generated[j]))
    /\ Goto(j, "done")
    /\ UNCHANGED <<dbUp, locked, reply, answer, dirs, files, clipFiles, runVars>>

\* except Exception as e: self._update_job_failure(job_id, str(e))
\* (clip_generator.py:200-204)
HandleException(j) ==
    /\ pc[j] = "except"
    /\ WriteJob(j, UpdateJobFailure(db[j], err[j]))
    /\ Goto(j, "done")
    /\ UNCHANGED <<dbUp, locked, reply, answer, dirs, files, clipFiles, runVars>>

\* ------------------------------------------------------------ deletion

\* Mutant of JobStatusResponse: the error message is left out of the snapshot
JobStatusResponseNoError(job_id, job) ==
    [job_id          |-> job_id,
     status          |-> job.status,
     status_message  |-> job.status_message,
     generated_clips |-> IF job.generated_clips = <<>> THEN None
                         ELSE Some(job.generated_clips),
     error_message   |-> None,
     completed_at    |-> job.completed_at]

\* JobStatusResponse(...) built from a row (routes.py:136-153): generated_clips
\* is None for a row without clips
JobStatusResponse(job_id, job) ==
    [job_id          |-> job_id,
     status          |-> job.status,
     status_message  |-> job.status_message,
     generated_clips |-> IF job.generated_clips = <<>> THEN None
                         ELSE Some(job.generated_clips),
     error_message   |-> job.error_message,
     completed_at    |-> job.completed_at]

\* GET /api/clips/status/{job_id} (routes.py:126-162): the snapshot of the row, or 404
GetJobStatus(rows, job_id) ==
    IF job_id \notin DOMAIN rows
    THEN [code |-> 404, job |-> None]
    ELSE [code |-> 200, job |-> Some(JobStatusResponse(job_id, rows[job_id]))]

\* Mutant of DownloadClip: the file of the clip is not looked for on the disk
DownloadClipNoExistsCheck(rows, job_id, clip_index, disk) ==
    IF job_id \notin DOMAIN rows THEN [code |-> 404, path |-> None]
    ELSE LET job == rows[job_id] IN
         IF job.status # COMPLETED THEN [code |-> 400, path |-> None]
         ELSE IF job.generated_clips = <<>> THEN [code |-> 404, path |-> None]
         ELSE IF clip_index < 0 \/ clip_index >= Len(job.generated_clips)
              THEN [code |-> 400, path |-> None]
         ELSE [code |-> 200, path |-> Some(job.generated_clips[clip_index + 1].path)]

\* Mutant of DownloadClip: the status of the job is not looked at
DownloadClipNoStatusCheck(rows, job_id, clip_index, disk) ==
    IF job_id \notin DOMAIN rows THEN [code |-> 404, path |-> None]
    ELSE LET job == rows[job_id] IN
         IF job.generated_clips = <<>> THEN [code |-> 404, path |-> None]
         ELSE IF clip_index < 0 \/ clip_index >= Len(job.generated_clips)
              THEN [code |-> 400, path |-> None]
         ELSE IF job.generated_clips[clip_index + 1].path \notin disk
              THEN [code |-> 404, path |-> None]
         ELSE [code |-> 200, path |-> Some(job.generated_clips[clip_index + 1].path)]

\* GET /api/clips/download/{job_id}/{clip_index} (routes.py:207-259): the file
\* at the path of generated_clips[clip_index] (0-based), or the error status.
DownloadClip(rows, job_id, clip_index, disk) ==
    IF job_id \notin DOMAIN rows THEN [code |-> 404, path |-> None]
    ELSE LET job == rows[job_id] IN
         IF job.status # COMPLETED THEN [code |-> 400, path |-> None]
         ELSE IF job.generated_clips = <<>> THEN [code |-> 404, path |-> None]
         ELSE IF clip_index < 0 \/ clip_index >= Len(job.generated_clips)
              THEN [code |-> 400, path |-> None]
         ELSE IF job.generated_clips[clip_index + 1].path \notin disk
              THEN [code |-> 404, path |-> None]
         ELSE [code |-> 200, path |-> Some(job.generated_clips[clip_index + 1].path)]

\* Every filename a clip can have in the model
ClipNames == {ClipFilename(j, i) : j \in JobIds, i \in 1..MaxSegs}

\* Path(clip_path).name of the path of a clip
Basename(path) ==
    CHOOSE f \in ClipNames : \E j \in JobIds : GetOutputPath(j, f) = path

\* Mutant of DownloadAllClips: a listed clip whose file is missing is left out
\* of the ZIP
DownloadAllClipsSkipMissing(rows, job_id, disk) ==
    IF job_id \notin DOMAIN rows THEN [code |-> 404, entries |-> None]
    ELSE LET job == rows[job_id] IN
         IF job.status # COMPLETED THEN [code |-> 400, entries |-> None]
         ELSE IF job.generated_clips = <<>> THEN [code |-> 404, entries |-> None]
         ELSE LET present == SelectSeq(job.generated_clips, LAMBDA c : c.path \in disk)
              IN  [code |-> 200,
                   entries |-> Some([n \in 1..Len(present) |->
                                       "clips/" \o Basename(present[n].path)])]

\* GET /api/clips/download-all/{job_id} (routes.py:293-356): 404 when any listed
\* file is missing, else a ZIP with one entry clips/<name> per listed clip, in
\* list order.
DownloadAllClips(rows, job_id, disk) ==
    IF job_id \notin DOMAIN rows THEN [code |-> 404, entries |-> None]
    ELSE LET job == rows[job_id] IN
         IF job.status # COMPLETED THEN [code |-> 400, entries |-> None]
         ELSE IF job.generated_clips = <<>> THEN [code |-> 404, entries |-> None]
         ELSE IF \E n \in 1..Len(job.generated_clips) :
                     job.generated_clips[n].path \notin disk
              THEN [code |-> 404, entries |-> None]
         ELSE [code |-> 200,
               entries |-> Some([n \in 1..Len(job.generated_clips) |->
                                   "clips/" \o Basename(job.generated_clips[n].path)])]

\* Mutant of StatusRequest: the query stamps the row it reads
StatusRequestTouchesRow(j) ==
    /\ answer' = IF dbUp
                 THEN Answer("status", j, GetJobStatus(db, j).code, GetJobStatus(db, j).job)
                 ELSE Answer("status", j, 500, None)
    /\ db' = IF HasJob(j) /\ dbUp
             THEN [db EXCEPT ![j].status_message = "Consultado: " \o @]
             ELSE db
    /\ UNCHANGED <<dbUp, files, clipFiles, pc, runVars, locked, reply, dirs>>

\* The three read handlers as requests: each answers from the committed rows and
\* the disk and changes neither; a failing query is answered with 500.
StatusRequest(j) ==
    /\ answer' = IF dbUp
                 THEN Answer("status", j, GetJobStatus(db, j).code, GetJobStatus(db, j).job)
                 ELSE Answer("status", j, 500, None)
    /\ UNCHANGED <<db, dbUp, files, clipFiles, pc, runVars, locked, reply, dirs>>

\* The clip_index values requested in the model
ClipIndices == (0 - 1)..MaxSegs

DownloadClipRequest(j, clip_index) ==
    /\ answer' = IF dbUp
                 THEN Answer("download", j, DownloadClip(db, j, clip_index, clipFiles).code,
                             Some([clip_index |-> clip_index,
                                   path |-> DownloadClip(db, j, clip_index, clipFiles).path]))
                 ELSE Answer("download", j, 500,
                             Some([clip_index |-> clip_index, path |-> None]))
    /\ UNCHANGED <<db, dbUp, files, clipFiles, pc, runVars, locked, reply, dirs>>

DownloadAllRequest(j) ==
    /\ answer' = IF dbUp
                 THEN Answer("download-all", j, DownloadAllClips(db, j, clipFiles).code,
                             IF DownloadAllClips(db, j, clipFiles).entries = None THEN None
                             ELSE Some([entries |->
                                          DownloadAllClips(db, j, clipFiles).entries[1]]))
                 ELSE Answer("download-all", j, 500, None)
    /\ UNCHANGED <<db, dbUp, files, clipFiles, pc, runVars, locked, reply, dirs>>

\* A clip file is removed from the disk by something other than the service
\* (an operator, a cleanup job)
LoseClip(c) ==
    /\ c \in clipFiles
    /\ clipFiles' = clipFiles \ {c}
    /\ UNCHANGED <<db, dbUp, files, pc, runVars, locked, reply, answer, dirs>>

\* The paths listed in the generated_clips column of a row
ListedPaths(job) == {job.generated_clips[n].path : n \in 1..Len(job.generated_clips)}

\* The answer of the delete handler (routes.py:435-439)
DeleteReply(deleted_count) == [status |-> "success", clips_deleted |-> deleted_count]

\* Mutant of DeleteRow: the row is kept when the unlink of one of the job's
\* files raised
DeleteRowUnlessUnlinkFailed(rows, j, job, lockedNow) ==
    IF \/ ListedPaths(job) \cap clipFiles \cap lockedNow.clips # {}
       \/ job.input_file \in files \cap lockedNow.inputs
    THEN rows
    ELSE [k \in DOMAIN rows \ {j} |-> rows[k]]

\* db.delete(job); db.commit()  (routes.py:430-431), reached whether or not an
\* unlink raised: each OSError is caught and logged inside its own try.
DeleteRow(rows, j, job, lockedNow) == [k \in DOMAIN rows \ {j} |-> rows[k]]

\* if "temp_uploads" in str(input_file) and input_file.exists()  (routes.py:423)
RemovesInput(job, fs) ==
    ContainsTempUploads(job.input_file) /\ job.input_file \in fs

\* DELETE /api/clips/delete/{job_id} (routes.py:390-439): unlink the clip files
\* of the row that exist, counting each one unlinked; unlink the input file when
\* its path contains temp_uploads and it exists; delete the row; answer with the
\* count.  An unlink that raises OSError is logged and skipped.
DeleteJob(j) ==
    LET job          == db[j]
        unlinked     == (ListedPaths(job) \cap clipFiles) \ locked.clips
    IN
    /\ dbUp
    /\ HasJob(j)
    /\ clipFiles' = clipFiles \ unlinked
    /\ files' = IF RemovesInput(job, files)
                THEN Unlink(files, job.input_file, locked.inputs) ELSE files
    /\ db' = DeleteRow(db, j, job, locked)
    /\ reply' = [reply EXCEPT ![j] = Some(DeleteReply(Cardinality(unlinked)))]
    /\ UNCHANGED <<dbUp, locked, pc, runVars, answer, dirs>>

\* A file on disk becomes undeletable (permissions, a busy file): from now on
\* its unlink raises OSError.
LockInput(p) ==
    /\ p \in files \ locked.inputs
    /\ locked' = [locked EXCEPT !.inputs = @ \cup {p}]
    /\ UNCHANGED <<db, dbUp, files, clipFiles, pc, runVars, reply, answer, dirs>>

LockClip(c) ==
    /\ c \in clipFiles \ locked.clips
    /\ locked' = [locked EXCEPT !.clips = @ \cup {c}]
    /\ UNCHANGED <<db, dbUp, files, clipFiles, pc, runVars, reply, answer, dirs>>

\* Files written at output path c cannot be removed (a file held open by
\* another process, a directory that forbids deletion): os.remove of a file
\* there raises OSError.
LockOutputPath(c) ==
    /\ c \notin clipFiles \cup locked.clips
    /\ locked' = [locked EXCEPT !.clips = @ \cup {c}]
    /\ UNCHANGED <<db, dbUp, files, clipFiles, pc, runVars, reply, answer, dirs>>

\* The database becomes unavailable, or available again
StoreFault ==
    /\ dbUp' = ~dbUp
    /\ UNCHANGED <<db, files, clipFiles, pc, runVars, locked, reply, answer, dirs>>

\* -------------------------------------------------------- specifications

\* Every path a clip file of job j can have in the model
ClipPaths(j) == {GetOutputPath(j, ClipFilename(j, i)) : i \in 1..MaxSegs}

\* One step of the handlers and of the background run for job j
JobStep(j) ==
    \/ \E ref \in InputRefs : Submit(j, ref)
    \/ Stage1Begin(j)
    \/ \E o \in DownloadOutcomes, r \in Responses, t \in Timestamps :
           Download(j, o, r, t)
    \/ SetInputFile(j)
    \/ Stage2Begin(j)
    \/ \E o \in TranscribeOutcomes : Transcribe(j, o)
    \/ Stage3Begin(j)
    \/ \E o \in FindOutcomes, found \in DetectedLists : FindClips(j, o, found)
    \/ Stage4Begin(j)
    \/ TrimOpen(j)
    \/ \E o \in TrimOutcomes : TrimClip(j, o)
    \/ Stage5Store(j)
    \/ HandleException(j)
    \/ DeleteJob(j)

Next == \E j \in JobIds : JobStep(j)

\* Jobs submitted, run and deleted concurrently, the job store available
\* throughout (spec section 1: a durable record store is assumed).
Spec == Init /\ [][Next]_vars

NextFault == StoreFault \/ JobStep("j1")

NextDelete ==
    \/ \E ref \in DeleteRefs : Submit("j1", ref)
    \/ JobStep("j1")
    \/ \E p \in InitialFiles \cup {CachePath(GenerateFilename(UrlVideo, r, t)) :
                                        r \in Responses, t \in Timestamps} : LockInput(p)
    \/ \E c \in ClipPaths("j1") : LockClip(c)

\* The job writes of ClipGenerator and StorageService.get_output_path called
\* directly, each returning to its caller: the three writes return None
\* whatever they found (clip_generator.py:273-336).
CallUpdateJobStatus(j, status, message) ==
    /\ WriteJob(j, UpdateJobStatus(db[j], status, message))
    /\ answer' = Answer("_update_job_status", j, 0, None)
    /\ UNCHANGED <<dbUp, files, clipFiles, pc, runVars, locked, reply, dirs>>

CallUpdateJobSuccess(j, generated_clips) ==
    /\ WriteJob(j, UpdateJobSuccess(db[j], generated_clips))
    /\ answer' = Answer("_update_job_success", j, 0, None)
    /\ UNCHANGED <<dbUp, files, clipFiles, pc, runVars, locked, reply, dirs>>

CallUpdateJobFailure(j, error_message) ==
    /\ WriteJob(j, UpdateJobFailure(db[j], error_message))
    /\ answer' = Answer("_update_job_failure", j, 0, None)
    /\ UNCHANGED <<dbUp, files, clipFiles, pc, runVars, locked, reply, dirs>>

\* StorageService.get_output_path(job_id, filename)  (storage.py:58-71)
CallGetOutputPath(job_id, filename) ==
    /\ dirs' = MakeJobDir(dirs, job_id)
    /\ answer' = Answer("get_output_path", job_id, 0,
                        Some([filename |-> filename,
                              path |-> GetOutputPath(job_id, filename)]))
    /\ UNCHANGED <<db, dbUp, files, clipFiles, pc, runVars, locked, reply>>

\* Rows a job can have: pending, processing, completed with one clip, failed
SampleRows ==
    LET pending    == NewClipJob(LocalVideo)
        processing == UpdateJobStatus(pending, PROCESSING,
                                      "Transcrevendo vídeo com WhisperX...")
    IN  {pending, processing,
         UpdateJobSuccess(processing, <<ClipMetadata("j1", 1, Timeline(1, 0)[1])>>),
         UpdateJobFailure(processing, "No clips detected in transcription")}

\* The arguments of the direct calls
CallMessages == {"Detectando clips com TextTiling...", "Gerando 1 clips..."}
CallClipLists == {<<ClipMetadata("j1", 1, Timeline(1, 0)[1])>>}
CallErrors == {"Failed to generate any clips"}
CallFilenames == {ClipFilename(j, 1) : j \in JobIds} \cup AbsoluteNames

\* The table holds no row, or one row for j1; nothing is running
InitCalls ==
    /\ db \in {<< >>} \cup {[j \in {"j1"} |-> row] : row \in SampleRows}
    /\ dbUp = TRUE
    /\ files = InitialFiles
    /\ clipFiles = {}
    /\ pc = [j \in JobIds |-> "new"]
    /\ video_path = [j \in JobIds |-> NoPath]
    /\ clips = [j \in JobIds |-> <<>>]
    /\ idx = [j \in JobIds |-> 0]
    /\ generated = [j \in JobIds |-> <<>>]
    /\ err = [j \in JobIds |-> ""]
    /\ calls = [j \in JobIds |-> {}]
    /\ locked = [inputs |-> {}, clips |-> {}]
    /\ reply = [j \in JobIds |-> None]
    /\ answer = NoResponse
    /\ dirs = {}

NextCalls ==
    \/ \E j \in JobIds, m \in CallMessages : CallUpdateJobStatus(j, PROCESSING, m)
    \/ \E j \in JobIds, l \in CallClipLists : CallUpdateJobSuccess(j, l)
    \/ \E j \in JobIds, e \in CallErrors : CallUpdateJobFailure(j, e)
    \/ \E j \in JobIds, f \in CallFilenames : CallGetOutputPath(j, f)

\* The job writes and get_output_path called in any order on a table that holds
\* a row in any status, or none.
SpecCalls == InitCalls /\ [][NextCalls]_vars

\* One step of the background run of job j
RunStep(j) ==
    \/ Stage1Begin(j)
    \/ \E o \in DownloadOutcomes, r \in Responses, t \in Timestamps :
           Download(j, o, r, t)
    \/ SetInputFile(j)
    \/ Stage2Begin(j)
    \/ \E o \in TranscribeOutcomes : Transcribe(j, o)
    \/ Stage3Begin(j)
    \/ \E o \in FindOutcomes, found \in DetectedLists : FindClips(j, o, found)
    \/ Stage4Begin(j)
    \/ TrimOpen(j)
    \/ \E o \in TrimOutcomes : TrimClip(j, o)
    \/ Stage5Store(j)
    \/ HandleException(j)

NextLive ==
    \/ \E ref \in InputRefs : Submit("j1", ref)
    \/ \E ref \in InputRefs : SubmitThenInitFails("j1", ref)
    \/ RunStep("j1")

\* One job submitted and run with the store available and never deleted; the
\* process keeps running and every call of the run returns or raises: a step
\* of the run that can be taken is eventually taken.
SpecLive == Init /\ [][NextLive]_vars /\ WF_vars(RunStep("j1"))

NextServe ==
    \/ JobStep("j1")
    \/ \E ref \in InputRefs : SubmitThenInitFails("j1", ref)
    \/ \E c \in ClipPaths("j1") : LoseClip(c)
    \/ StatusRequest("j1")
    \/ \E i \in ClipIndices : DownloadClipRequest("j1", i)
    \/ DownloadAllRequest("j1")

\* One job submitted (ClipsAI possibly failing to initialise), run, queried,
\* its clips retrieved and deleted, while clip files may vanish from the disk.
SpecServe == Init /\ [][NextServe]_vars

\* One job, submitted also with a caller's file whose directory name contains
\* temp_uploads, run and deleted while files on disk may become undeletable.
SpecDelete == Init /\ [][NextDelete]_vars

\* As Init, with the directory of LocalRefs on disk
InitLocal ==
    /\ db = << >>
    /\ dbUp = TRUE
    /\ files = InitialFiles \cup Directories
    /\ clipFiles = {}
    /\ pc = [j \in JobIds |-> "new"]
    /\ video_path = [j \in JobIds |-> NoPath]
    /\ clips = [j \in JobIds |-> <<>>]
    /\ idx = [j \in JobIds |-> 0]
    /\ generated = [j \in JobIds |-> <<>>]
    /\ err = [j \in JobIds |-> ""]
    /\ calls = [j \in JobIds |-> {}]
    /\ locked = [inputs |-> {}, clips |-> {}]
    /\ reply = [j \in JobIds |-> None]
    /\ answer = NoResponse
    /\ dirs = {}

NextLocal ==
    \/ \E ref \in LocalRefs : Submit("j1", ref)
    \/ \E found \in MixedLists : FindClips("j1", "ok", found)
    \/ \E c \in ClipPaths("j1") : LockOutputPath(c)
    \/ JobStep("j1")

\* One job, submitted also with a directory as its video, run (find_clips
\* possibly returning clips with invalid times) and deleted, while output
\* paths may be such that a file written there cannot be removed.
SpecLocal == InitLocal /\ [][NextLocal]_vars

\* -------------------------------------------- the sweep of the fetch cache

\* A URL whose path has no filename with a dot: its download is named
\* video_<timestamp><extension>  (downloader.py:237-240)
BareUrl == Loc("https", "cdn.example", "/media", "stream", "")

\* The files download_video can have written into the cache directory
CacheEntries ==
    {CachePath(GenerateFilename(u, r, t)) :
        u \in {UrlVideo, BareUrl}, r \in Responses, t \in Timestamps}

\* self.cache_dir.glob("video_*"): the names of the cache directory that start
\* with video_, tabulated over the names of the model
VideoGlobStems == {"video_" \o t : t \in Timestamps}
MatchesVideoGlob(p) == p.dir = CacheDir /\ p.stem \in VideoGlobStems

\* Ages in seconds (time() - st_mtime) a cached file can have at a sweep, and
\* the thresholds of a sweep in hours
FileAges == {0, 3600, 3601, 86400, 86401}
MaxAgeHours == {1, 24}

\* AsyncVideoDownloader.cleanup_old_videos (downloader.py:302-320): the files
\* of the glob that are regular files older than max_age_hours * 3600 seconds
SweptFiles(fs, age, max_age_hours) ==
    {p \in fs : /\ MatchesVideoGlob(p)
                /\ IsRegularFile(fs, p)
                /\ age[p] > max_age_hours * 3600}

\* One call of cleanup_old_videos(max_age_hours), age[p] being the age of
\* cached file p at the time of the call; it returns deleted_count.
CleanupOldVideos(max_age_hours, age) ==
    LET swept == SweptFiles(files, age, max_age_hours) IN
    /\ files' = files \ swept
    /\ answer' = Answer("cleanup_old_videos", "", 0,
                        Some([deleted_count |-> Cardinality(swept),
                              max_age_hours |-> max_age_hours,
                              age           |-> age]))
    /\ UNCHANGED <<db, dbUp, clipFiles, pc, runVars, locked, reply, dirs>>

\* As Init, with any of the cache entries on disk
InitSweep ==
    /\ db = << >>
    /\ dbUp = TRUE
    /\ files \in {InitialFiles \cup cached : cached \in SUBSET CacheEntries}
    /\ clipFiles = {}
    /\ pc = [j \in JobIds |-> "new"]
    /\ video_path = [j \in JobIds |-> NoPath]
    /\ clips = [j \in JobIds |-> <<>>]
    /\ idx = [j \in JobIds |-> 0]
    /\ generated = [j \in JobIds |-> <<>>]
    /\ err = [j \in JobIds |-> ""]
    /\ calls = [j \in JobIds |-> {}]
    /\ locked = [inputs |-> {}, clips |-> {}]
    /\ reply = [j \in JobIds |-> None]
    /\ answer = NoResponse
    /\ dirs = {}

NextSweep ==
    \E h \in MaxAgeHours, age \in [CacheEntries -> FileAges] : CleanupOldVideos(h, age)

\* The cache holding any of the files downloads leave there, swept any number
\* of times with the files at any ages.
SpecSweep == InitSweep /\ [][NextSweep]_vars

\* ------------------------------------------- the size limit of a download

BytesPerMb == 1024 * 1024

\* Mutant of HeaderTooLarge: the advertised size is compared in whole megabytes
HeaderTooLargeWholeMb(content_length, max_size_mb) ==
    content_length \div BytesPerMb > max_size_mb

\* size_mb = int(content_length) / (1024 * 1024); size_mb > max_size_mb
\* (downloader.py:81-82).  The float division by a power of two is exact, so
\* the quotient is compared as whole megabytes and remaining bytes.
HeaderTooLarge(content_length, max_size_mb) ==
    LET whole == content_length \div BytesPerMb
        rest  == content_length % BytesPerMb
    IN  whole > max_size_mb \/ (whole = max_size_mb /\ rest > 0)

\* Mutant of OverLimit: the running size is refused from the limit on
OverLimitFromLimit(downloaded_size, max_size_mb) ==
    downloaded_size >= max_size_mb * 1024 * 1024

\* downloaded_size > (max_size_mb * 1024 * 1024)  (downloader.py:102)
OverLimit(downloaded_size, max_size_mb) ==
    downloaded_size > max_size_mb * 1024 * 1024

\* The limits, chunk sizes and sizes around the limit drawn in the model
SizeLimitsMb == {1, 2}
ChunkSizes == {8192, 65536, BytesPerMb}
SizesAround(max_size_mb) ==
    {0, max_size_mb * BytesPerMb - 1, max_size_mb * BytesPerMb,
     max_size_mb * BytesPerMb + 1, max_size_mb * BytesPerMb + 8193}

\* The cache file of the sized downloads
SizedTarget ==
    CachePath(GenerateFilename(UrlVideo, Response(None, "video/mp4"), "20240101_120000"))

\* A call of download_video and how far it is: outcome "receiving" while the
\* loop over the chunks runs, else how the call ended
SizedCall(content_length, body_size, chunk_size, max_size_mb, downloaded_size, outcome) ==
    Answer("download_video", "", 0,
           Some([content_length  |-> content_length,
                 body_size       |-> body_size,
                 chunk_size      |-> chunk_size,
                 max_size_mb     |-> max_size_mb,
                 downloaded_size |-> downloaded_size,
                 outcome         |-> outcome]))

Receiving == answer.op = "download_video" /\ answer.body[1].outcome = "receiving"

\* download_video(url, max_size_mb, chunk_size) up to the opening of the output
\* file (downloader.py:79-97), for a response with the given content-length
\* header (None when absent) and a body of body_size bytes; a body of no bytes
\* ends the loop at once.
BeginDownloadSized(content_length, body_size, chunk_size, max_size_mb) ==
    /\ ~Receiving
    /\ IF content_length # None /\ HeaderTooLarge(content_length[1], max_size_mb)
       THEN /\ answer' = SizedCall(content_length, body_size, chunk_size, max_size_mb,
                                   0, "too_large_header")
            /\ UNCHANGED files
       ELSE /\ answer' = SizedCall(content_length, body_size, chunk_size, max_size_mb, 0,
                                   IF body_size = 0 THEN "ok" ELSE "receiving")
            /\ files' = files \cup {SizedTarget}
    /\ UNCHANGED <<db, dbUp, clipFiles, pc, runVars, locked, reply, dirs>>

\* One pass of the loop over response.content.iter_chunked(chunk_size)
\* (downloader.py:98-105): the chunk is written and counted, and the count is
\* compared with the limit; over it the file is unlinked and ValueError raised.
ReceiveChunk ==
    LET call      == answer.body[1]
        remaining == call.body_size - call.downloaded_size
        chunk     == IF remaining < call.chunk_size THEN remaining ELSE call.chunk_size
        size      == call.downloaded_size + chunk
    IN
    /\ Receiving
    /\ IF OverLimit(size, call.max_size_mb)
       THEN /\ files' = Unlink(files, SizedTarget, locked.inputs)
            /\ answer' = SizedCall(call.content_length, call.body_size, call.chunk_size,
                                   call.max_size_mb, size, "too_large_stream")
       ELSE /\ UNCHANGED files
            /\ answer' = SizedCall(call.content_length, call.body_size, call.chunk_size,
                                   call.max_size_mb, size,
                                   IF size = call.body_size THEN "ok" ELSE "receiving")
    /\ UNCHANGED <<db, dbUp, clipFiles, pc, runVars, locked, reply, dirs>>

NextSize ==
    \/ \E m \in SizeLimitsMb, c \in ChunkSizes :
          \E cl \in {None} \cup {Some(n) : n \in SizesAround(m)}, b \in SizesAround(m) :
              BeginDownloadSized(cl, b, c, m)
    \/ ReceiveChunk

\* Downloads of bodies around the size limit, with the content-length header
\* absent, right, understating or overstating.
SpecSize == Init /\ [][NextSize]_vars

\* One job submitted, run and deleted while the database may fail and recover
\* at any moment.
SpecFault == Init /\ [][NextFault]_vars

\* ================================================================ claims

Terminal == {COMPLETED, FAILED}

\* The background run of job j has returned
RunReturned(j) == pc[j] = "done"

\* The clip indices whose trim raised, in the wrapper or in the black box
TrimFailed(j) == {c.arg : c \in {x \in calls[j] : x.box = "trim" /\ x.result # "ok"}}

\* The clip indices whose trim was attempted
TrimAttempted(j) == {c.arg : c \in {x \in calls[j] : x.box = "trim"}}

\* The loop of _trim_clips has been entered and left
TrimReturned(j) == idx[j] >= 1 /\ pc[j] # "trim"

\* <<start, end>> of each entry of a list of clips or of clip metadata
Spans(seq) == [k \in 1..Len(seq) |-> <<seq[k].start_time, seq[k].end_time>>]

\* The detected clips of job j whose trim did not raise, in detection order
KeptClips(j) ==
    LET keep == SelectSeq([i \in 1..Len(clips[j]) |-> i],
                          LAMBDA i : i \notin TrimFailed(j))
    IN  [k \in 1..Len(keep) |-> clips[j][keep[k]]]

\* ---- C1: when the background run generate_clip has returned, the job's
\* recorded status is Completed or Failed, also when a job-record write failed.
\* Stated as the claim states it; the code violates it (SpecFault).
C1_RunEndsTerminal ==
    \A j \in JobIds : (RunReturned(j) /\ HasJob(j)) => db[j].status \in Terminal

\* ---- C2: once a job is Completed or Failed, no step changes its row for as
\* long as the row exists.
C2_TerminalRowFrozen ==
    [][\A j \in JobIds :
          (HasJob(j) /\ db[j].status \in Terminal /\ j \in DOMAIN db')
              => db'[j] = db[j]]_vars

\* C2 witness: both runs have returned, one job Completed and one Failed, rows kept
C2_Witness ==
    \E j, k \in JobIds :
        /\ RunReturned(j) /\ HasJob(j) /\ db[j].status = COMPLETED
        /\ RunReturned(k) /\ HasJob(k) /\ db[k].status = FAILED

\* ---- C3: the only status changes of a job are pending->processing,
\* processing->processing, processing->completed and processing->failed.
\* Stated as the claim states it; the code violates it (local input not found).
LegalTransitions ==
    {<<PENDING, PROCESSING>>, <<PROCESSING, PROCESSING>>,
     <<PROCESSING, COMPLETED>>, <<PROCESSING, FAILED>>}

C3_OnlyLegalTransitions ==
    [][\A j \in JobIds :
          (HasJob(j) /\ j \in DOMAIN db' /\ db'[j] # db[j])
              => <<db[j].status, db'[j].status>> \in LegalTransitions]_vars

\* ---- C4: in every committed state error_message is set iff the status is
\* failed, and a failed job has no generated clips.
C4_ErrorIffFailed ==
    \A j \in DOMAIN db :
        /\ (db[j].error_message # None) <=> (db[j].status = FAILED)
        /\ db[j].status = FAILED => db[j].generated_clips = <<>>

\* C4 witness: a failed job with its message, read while another job is running
C4_Witness ==
    \E j, k \in JobIds :
        /\ HasJob(j) /\ db[j].status = FAILED
        /\ db[j].error_message = Some("Transcription failed: " \o TranscribeError)
        /\ HasJob(k) /\ db[k].status = PROCESSING /\ pc[k] = "trim"

\* ---- C5: generated_clips is non-empty iff the status is completed, and in the
\* step that makes a job completed every listed clip has its file on disk.
ResultsIffCompleted ==
    \A j \in DOMAIN db :
        (db[j].generated_clips # <<>>) <=> (db[j].status = COMPLETED)

BecomesCompleted(j) ==
    /\ HasJob(j) /\ db[j].status # COMPLETED
    /\ j \in DOMAIN db' /\ db'[j].status = COMPLETED

C5_ResultsIffCompletedAndOnDisk ==
    /\ []ResultsIffCompleted
    /\ [][\A j \in JobIds :
            BecomesCompleted(j) =>
                \A n \in 1..Len(db'[j].generated_clips) :
                    db'[j].generated_clips[n].path \in clipFiles']_vars

\* C5 witness: a completed job with two clips, both on disk, one trim having failed
C5_Witness ==
    \E j \in JobIds :
        /\ HasJob(j) /\ db[j].status = COMPLETED
        /\ Len(db[j].generated_clips) = 2
        /\ TrimFailed(j) # {}
        /\ \A n \in 1..2 : db[j].generated_clips[n].path \in clipFiles

\* ---- C6: completed_at is set iff the status is completed or failed.
C6_CompletedAtIffTerminal ==
    \A j \in DOMAIN db :
        (db[j].completed_at # None) <=> (db[j].status \in Terminal)

\* C6 witness: a completed job with completed_at set beside a processing job without
C6_Witness ==
    \E j, k \in JobIds :
        /\ HasJob(j) /\ db[j].status = COMPLETED /\ db[j].completed_at # None
        /\ HasJob(k) /\ db[k].status = PROCESSING /\ db[k].completed_at = None

\* ---- C7: when the trims of a proper subset of the detected clips fail, every
\* clip is still attempted, the job becomes completed, and generated_clips holds
\* one entry per clip that did not fail, in detection order, with its start and end.
C7_PartialTrimSuccess ==
    \A j \in JobIds :
        (TrimReturned(j) /\ TrimFailed(j) # 1..Len(clips[j])) =>
            /\ TrimAttempted(j) = 1..Len(clips[j])
            /\ pc[j] \in {"store", "done"}
            /\ Spans(generated[j]) = Spans(KeptClips(j))
            /\ (RunReturned(j) /\ HasJob(j)) =>
                  /\ db[j].status = COMPLETED
                  /\ Spans(db[j].generated_clips) = Spans(KeptClips(j))
                  /\ Len(db[j].generated_clips)
                        = Len(clips[j]) - Cardinality(TrimFailed(j))

\* C7 witness (scenario C): three clips, the black box fails for the second only,
\* the job is completed with the first and the third
C7_Witness ==
    \E j \in JobIds :
        /\ RunReturned(j) /\ HasJob(j) /\ db[j].status = COMPLETED
        /\ Len(clips[j]) = 3
        /\ Call("trim", 2, "error") \in calls[j]
        /\ TrimFailed(j) = {2}
        /\ Spans(db[j].generated_clips) = <<Spans(clips[j])[1], Spans(clips[j])[3]>>

\* ---- C8: when the trim of every detected clip fails, all clips having been
\* attempted, the job becomes failed with "Failed to generate any clips" and no
\* generated clips; no job is completed with zero clips.
NoClipsMessage == "Failed to generate any clips"

C8_AllTrimsFailed ==
    \A j \in JobIds :
        /\ (TrimReturned(j) /\ TrimFailed(j) = 1..Len(clips[j])) =>
              /\ pc[j] \in {"except", "done"}
              /\ err[j] = NoClipsMessage
              /\ (RunReturned(j) /\ HasJob(j)) =>
                    /\ db[j].status = FAILED
                    /\ db[j].error_message = Some(NoClipsMessage)
                    /\ db[j].generated_clips = <<>>
        /\ err[j] = NoClipsMessage => TrimAttempted(j) = 1..Len(clips[j])
        /\ (HasJob(j) /\ db[j].status = COMPLETED) => db[j].generated_clips # <<>>

\* C8 witness: two or more clips, the black box fails for each, the job is failed
C8_Witness ==
    \E j \in JobIds :
        /\ RunReturned(j) /\ HasJob(j) /\ db[j].status = FAILED
        /\ db[j].error_message = Some(NoClipsMessage)
        /\ Len(clips[j]) >= 2
        /\ \A i \in 1..Len(clips[j]) : Call("trim", i, "error") \in calls[j]

\* ---- C9: a failure of the transcription stage, or of the segmentation stage,
\* fails the job with that stage's cause, and no later stage is called.
TranscribeFailed(j) == \E c \in calls[j] : c.box = "transcribe" /\ c.result # "ok"

FindFailed(j) == \E c \in calls[j] : c.box = "find_clips" /\ c.result = "error"

Called(j, boxes) == \E c \in calls[j] : c.box \in boxes

TranscriptionCauses(j) ==
    {"Transcription failed: " \o TranscribeError,
     "Transcription failed: Audio file not found: " \o LocStr(video_path[j])}

C9_StageFailureAborts ==
    \A j \in JobIds :
        /\ TranscribeFailed(j) =>
              /\ ~Called(j, {"find_clips", "trim"})
              /\ pc[j] \in {"except", "done"}
              /\ (RunReturned(j) /\ HasJob(j)) =>
                    /\ db[j].status = FAILED
                    /\ \E m \in TranscriptionCauses(j) : db[j].error_message = Some(m)
        /\ FindFailed(j) =>
              /\ ~Called(j, {"trim"})
              /\ pc[j] \in {"except", "done"}
              /\ (RunReturned(j) /\ HasJob(j)) =>
                    /\ db[j].status = FAILED
                    /\ db[j].error_message = Some("Clip finding failed: " \o FindError)

\* C9 witness: one job failed in transcription and one in segmentation
C9_Witness ==
    \E j, k \in JobIds :
        /\ Call("transcribe", 0, "error") \in calls[j]
        /\ RunReturned(j) /\ HasJob(j) /\ db[j].status = FAILED
        /\ Call("find_clips", 0, "error") \in calls[k]
        /\ RunReturned(k) /\ HasJob(k) /\ db[k].status = FAILED

\* ---- C10: when segmentation returns an empty list the job becomes failed with
\* "No clips detected ...", no trim is attempted and no clip file is created.
FoundNothing(j) == Call("find_clips", 0, "ok") \in calls[j]

C10_NoClipsDetected ==
    \A j \in JobIds :
        FoundNothing(j) =>
            /\ ~Called(j, {"trim"})
            /\ ClipPaths(j) \cap clipFiles = {}
            /\ pc[j] \in {"except", "done"}
            /\ err[j] = "No clips detected in transcription"
            /\ (RunReturned(j) /\ HasJob(j)) =>
                  /\ db[j].status = FAILED
                  /\ db[j].error_message = Some("No clips detected in transcription")
                  /\ db[j].generated_clips = <<>>

\* C10 witness: the run has returned after an empty segmentation, the job is failed
C10_Witness ==
    \E j \in JobIds :
        /\ FoundNothing(j)
        /\ RunReturned(j) /\ HasJob(j) /\ db[j].status = FAILED

\* ---- C11: a job submitted with a local path that does not exist becomes failed
\* with an error message containing "not found"; transcription, segmentation and
\* trim are never called, no clip file is created and generated_clips stays empty.
\* (Local files outside the cache neither appear nor vanish under Spec.)
SubmittedLocal(j) ==
    /\ pc[j] \notin {"new", "rejected"}
    /\ ~IsUrl(video_path[j])
    /\ ~Called(j, {"download"})

NotFoundText == "not found"

C11_MissingLocalPath ==
    \A j \in JobIds :
        (SubmittedLocal(j) /\ ~FileExists(files, video_path[j])) =>
            /\ ~Called(j, {"transcribe", "find_clips", "trim"})
            /\ ClipPaths(j) \cap clipFiles = {}
            /\ pc[j] \in {"queued", "except", "done"}
            /\ HasJob(j) => db[j].generated_clips = <<>>
            /\ (RunReturned(j) /\ HasJob(j)) =>
                  /\ db[j].status = FAILED
                  /\ db[j].error_message =
                        Some("Input video file " \o NotFoundText \o ": "
                                \o LocStr(video_path[j]))

\* C11 witness (scenario B): the run for a missing local path has returned, the
\* job is failed, no stage was called and no clip file of the job exists
C11_Witness ==
    \E j \in JobIds :
        /\ SubmittedLocal(j) /\ video_path[j] = MissingVideo
        /\ RunReturned(j) /\ HasJob(j) /\ db[j].status = FAILED
        /\ calls[j] = {}
        /\ ClipPaths(j) \cap clipFiles = {}

\* ---- C12: the stages of a job run in the order resolve input, transcribe,
\* detect, trim, persist, each only after the one before succeeded; trims are
\* attempted in detection order; and clip index i (0-based) of a completed job
\* retrieves the (i+1)-th successfully trimmed clip of that order.
StageRank(box) ==
    CASE box = "download"   -> 1
      [] box = "transcribe" -> 2
      [] box = "find_clips" -> 3
      [] box = "trim"       -> 4

\* The resolve-input stage of job j has succeeded
ResolveSucceeded(j) ==
    \/ Call("download", 0, "ok") \in calls[j]
    \/ SubmittedLocal(j) /\ FileExists(files, video_path[j]) /\ pc[j] # "queued"

\* The indices of the clips whose trim succeeded, in detection order
TrimmedIndices(j) ==
    SelectSeq([i \in 1..Len(clips[j]) |-> i],
              LAMBDA i : Call("trim", i, "ok") \in calls[j])

StagesInOrder ==
    \A j \in JobIds :
        /\ Called(j, {"transcribe"}) => ResolveSucceeded(j)
        /\ Called(j, {"find_clips"}) => Call("transcribe", 0, "ok") \in calls[j]
        /\ Called(j, {"trim"}) =>
              /\ Len(clips[j]) >= 1
              /\ Call("find_clips", Len(clips[j]), "ok") \in calls[j]
        /\ idx[j] >= 1 => TrimAttempted(j) = 1..(idx[j] - 1)
        /\ (pc[j] = "store" \/ (HasJob(j) /\ db[j].status = COMPLETED)) =>
              /\ TrimAttempted(j) = 1..Len(clips[j])
              /\ TrimmedIndices(j) # <<>>
        /\ (HasJob(j) /\ db[j].status = COMPLETED) =>
              /\ Len(db[j].generated_clips) = Len(TrimmedIndices(j))
              /\ \A i \in 0..(Len(TrimmedIndices(j)) - 1) :
                    /\ DownloadClip(db, j, i, clipFiles) =
                          [code |-> 200,
                           path |-> Some(GetOutputPath(j,
                                      ClipFilename(j, TrimmedIndices(j)[i + 1])))]
                    /\ Spans(db[j].generated_clips)[i + 1]
                          = Spans(clips[j])[TrimmedIndices(j)[i + 1]]

\* A stage call made in a step comes after every call made before it
CallsAdvance(j) ==
    \A c \in calls'[j] \ calls[j] : \A b \in calls[j] :
        \/ StageRank(b.box) < StageRank(c.box)
        \/ b.box = "trim" /\ c.box = "trim" /\ b.arg < c.arg

C12_StagesAndClipsInOrder ==
    /\ []StagesInOrder
    /\ [][\A j \in JobIds : CallsAdvance(j)]_vars

\* C12 witness: three clips detected, the first trim failed, the job completed;
\* clip index 0 retrieves the file of the second clip and index 1 that of the third
C12_Witness ==
    \E j \in JobIds :
        /\ HasJob(j) /\ db[j].status = COMPLETED
        /\ Len(clips[j]) = 3 /\ TrimFailed(j) = {1}
        /\ DownloadClip(db, j, 0, clipFiles).path
              = Some(GetOutputPath(j, ClipFilename(j, 2)))
        /\ DownloadClip(db, j, 1, clipFiles).path
              = Some(GetOutputPath(j, ClipFilename(j, 3)))
        /\ DownloadClip(db, j, 2, clipFiles).code = 400

\* ---- C13: at the moment a stage's work begins (resolve input, transcribe,
\* detect, trim) the job is processing and its status_message is that stage's
\* message, for URL inputs and for local paths alike.
\* Stated as the claim states it; the code violates it (stage 1 of a local path).
\* The stage whose work the step of job j does, 0 when it does none
WorkingStage(j) ==
    CASE pc[j] = "queued" /\ ~IsUrl(video_path[j]) /\ pc'[j] # pc[j] -> 1
      [] pc[j] = "download" /\ pc'[j] # pc[j]                       -> 1
      [] pc[j] = "transcribe" /\ pc'[j] # pc[j]                     -> 2
      [] pc[j] = "find_clips" /\ pc'[j] # pc[j]                     -> 3
      [] pc[j] \in {"trim_open", "trim"}
            /\ (pc'[j] # pc[j] \/ idx'[j] # idx[j])                 -> 4
      [] OTHER                                                     -> 0

\* The status_message is the one of the stage: the text the code writes for it;
\* for stage 1 of a local path, for which the code has no text, any message
\* other than the one of a pending job.
StageMessageShown(j, stage, message) ==
    CASE stage = 1 /\ IsUrl(video_path[j]) -> message = "Baixando vídeo da web..."
      [] stage = 1 /\ ~IsUrl(video_path[j]) -> message # NewClipJob(video_path[j]).status_message
      [] stage = 2 -> message = "Transcrevendo vídeo com WhisperX..."
      [] stage = 3 -> message = "Detectando clips com TextTiling..."
      [] stage = 4 -> message = "Gerando " \o ToString(Len(clips[j])) \o " clips..."
      [] OTHER     -> FALSE

C13_MessageBeforeWork ==
    [][\A j \in JobIds :
          (HasJob(j) /\ WorkingStage(j) # 0) =>
              /\ db[j].status = PROCESSING
              /\ StageMessageShown(j, WorkingStage(j), db[j].status_message)]_vars

\* ---- C14: the pipeline changes input_file at most once, only after the
\* resolve-input stage succeeded, and to the resolved local path (the same path
\* for a local input, the cache file for a URL); when the resolve-input stage
\* failed, input_file is still the reference that was submitted.
ResolveFailed(j) ==
    \/ \E c \in calls[j] : c.box = "download" /\ c.result # "ok"
    \/ SubmittedLocal(j) /\ ~FileExists(files, video_path[j]) /\ pc[j] # "queued"

\* The run of job j is past the write of input_file
PastSetInput(j) ==
    /\ pc[j] \notin {"new", "rejected", "queued", "download", "setinput"}
    /\ ~ResolveFailed(j)

InputFileAsResolved ==
    \A j \in DOMAIN db :
        /\ pc[j] \in {"queued", "download", "setinput"} =>
              /\ db[j].input_file \in InputRefs
              /\ IsUrl(db[j].input_file) <=> ~SubmittedLocal(j)
        /\ ResolveFailed(j) =>
              /\ db[j].input_file \in InputRefs
              /\ db[j].input_file = video_path[j]
        /\ PastSetInput(j) =>
              /\ db[j].input_file = video_path[j]
              /\ ~IsUrl(db[j].input_file)
              /\ SubmittedLocal(j) => db[j].input_file \in InputRefs
              /\ ~SubmittedLocal(j) =>
                    \E r \in Responses, t \in Timestamps :
                        db[j].input_file = CachePath(GenerateFilename(UrlVideo, r, t))

InputFileChangesOnce(j) ==
    (HasJob(j) /\ j \in DOMAIN db' /\ db'[j].input_file # db[j].input_file) =>
        /\ pc[j] = "setinput" /\ pc'[j] = "stage2"
        /\ ResolveSucceeded(j)
        /\ db[j].input_file \in InputRefs
        /\ db'[j].input_file \notin InputRefs
        /\ db'[j].input_file = video_path[j]

C14_InputFileWrittenOnce ==
    /\ []InputFileAsResolved
    /\ [][\A j \in JobIds : InputFileChangesOnce(j)]_vars

\* C14 witness: a URL job past stage 1 whose input_file is the cache file, beside
\* a URL job whose download failed and whose input_file is still the URL
C14_Witness ==
    \E j, k \in JobIds :
        /\ HasJob(j) /\ PastSetInput(j) /\ Call("download", 0, "ok") \in calls[j]
        /\ db[j].input_file.dir = CacheDir
        /\ HasJob(k) /\ ResolveFailed(k) /\ db[k].input_file = UrlVideo

\* ---- C15: when download_video fails after it started writing the destination
\* file, whatever the cause, the destination file is absent from the cache
\* directory when the failure is reported; on success exactly one file was written.
\* Stated as the claim states it; the code violates it (a stream that breaks).
WroteBeforeFailing == {"too_large_stream", "error_midstream"}

C15_PartialFileRemoved ==
    [][\A j \in JobIds : \A c \in calls'[j] \ calls[j] :
          c.box = "download" =>
              \A r \in Responses, t \in Timestamps :
                  /\ c.result \in WroteBeforeFailing =>
                        DownloadTarget(j, r, t) \notin files'
                  /\ c.result = "ok" =>
                        /\ DownloadTarget(j, r, t) \in files'
                        /\ files' \ files \subseteq {DownloadTarget(j, r, t)}]_vars

\* ---- C16: a download whose advertised content-length exceeds the limit fails
\* with the cache directory exactly as it was: no file created, none changed.
C16_TooLargeHeaderWritesNothing ==
    [][\A j \in JobIds :
          Call("download", 0, "too_large_header") \in calls'[j] \ calls[j] =>
              /\ files' = files
              /\ pc'[j] = "except"]_vars

\* C16 witness: the download of a job was refused for its content-length and
\* the cache directory holds no file
C16_Witness ==
    \E j \in JobIds :
        /\ Call("download", 0, "too_large_header") \in calls[j]
        /\ RunReturned(j) /\ HasJob(j) /\ db[j].status = FAILED
        /\ \A p \in files : p.dir # CacheDir

\* The step answers a delete request for job j
DeleteStep(j) == reply'[j] # reply[j]

\* ---- C17: deleting a job removes the job's input file if and only if that
\* file lives under the download cache directory; a caller's file outside the
\* cache is never deleted, whatever its name.
\* Stated as the claim states it; the code violates it (a substring test on the path).
LivesInCache(p) == p.dir = CacheDir

C17_DeletesOnlyCachedInput ==
    [][\A j \in JobIds :
          DeleteStep(j) =>
              /\ \A p \in files \ files' : p = db[j].input_file /\ LivesInCache(p)
              /\ (LivesInCache(db[j].input_file)
                     /\ db[j].input_file \notin locked.inputs)
                    => db[j].input_file \notin files']_vars

\* ---- C18: the count a deletion returns is the number of files it removed
\* from disk: every removed clip file and the removed cached input file, and no
\* file that was absent or whose removal failed.
\* Stated as the claim states it; the code violates it (the input file is not counted).
C18_CountIsFilesRemoved ==
    [][\A j \in JobIds :
          DeleteStep(j) =>
              reply'[j] = Some(DeleteReply(Cardinality(clipFiles \ clipFiles')
                                             + Cardinality(files \ files')))]_vars

\* ---- C19: a file of the job that cannot be deleted does not abort the
\* deletion: every other file is still removed, the row is removed, and from
\* then on a status query for the job answers not found, whatever the job's
\* run does afterwards.
DeleteIsBestEffort(j) ==
    DeleteStep(j) =>
        /\ reply'[j] # None /\ reply'[j][1].status = "success"
        /\ GetJobStatus(db', j).code = 404
        /\ ListedPaths(db[j]) \cap clipFiles' \subseteq locked.clips
        /\ (RemovesInput(db[j], files) /\ db[j].input_file \in files')
              => db[j].input_file \in locked.inputs

DeletedJobStaysGone ==
    \A j \in JobIds : reply[j] # None => GetJobStatus(db, j).code = 404

C19_DeleteBestEffortAndFinal ==
    /\ []DeletedJobStaysGone
    /\ [][\A j \in JobIds : DeleteIsBestEffort(j)]_vars

\* C19 witness: a job was deleted while it ran, its cached input could not be
\* unlinked, and its run went on to trim clips and to the success write: the
\* status query still answers not found
C19_Witness ==
    \E j \in JobIds :
        /\ reply[j] # None /\ RunReturned(j)
        /\ Call("download", 0, "ok") \in calls[j]
        /\ video_path[j] \in files \cap locked.inputs
        /\ generated[j] # <<>>
        /\ GetJobStatus(db, j).code = 404

\* ---- C20: once a job is deleted and its run has finished, no clip file made
\* for the job is on disk, at whatever point of the run the deletion came.
\* Stated as the claim states it; the code violates it (deletion during the trims).
C20_NoOrphanedClipFiles ==
    \A j \in JobIds :
        (reply[j] # None /\ RunReturned(j) /\ locked.clips = {})
            => ClipPaths(j) \cap clipFiles = {}

\* The step answers a request, or a direct call, of the kind op for job j
AnswerStep(op, j) ==
    /\ answer' # answer
    /\ answer'.op = op
    /\ answer'.job_id = j

\* ---- C21: for a completed job, bulk retrieval fails with 404 and hands out no
\* archive when the file of at least one listed clip is missing; otherwise the
\* archive holds exactly one entry clips/<filename> for every listed clip.
C21_BulkAllOrNothing ==
    [][\A j \in JobIds :
          (AnswerStep("download-all", j) /\ HasJob(j) /\ db[j].status = COMPLETED) =>
              IF ListedPaths(db[j]) \subseteq clipFiles
              THEN /\ answer'.code = 200
                   /\ answer'.body =
                         Some([entries |->
                                 [n \in 1..Len(db[j].generated_clips) |->
                                     "clips/" \o db[j].generated_clips[n].filename]])
                   /\ Cardinality({answer'.body[1].entries[n] :
                                       n \in 1..Len(answer'.body[1].entries)})
                         = Len(db[j].generated_clips)
              ELSE /\ answer'.code = 404
                   /\ answer'.body = None]_vars

\* C21 witness: bulk retrieval of a completed job with two clips, the file of one
\* of them gone, was answered 404 without an archive
C21_Witness ==
    \E j \in JobIds :
        /\ answer = Answer("download-all", j, 404, None)
        /\ HasJob(j) /\ db[j].status = COMPLETED
        /\ Len(db[j].generated_clips) = 2
        /\ Cardinality(ListedPaths(db[j]) \cap clipFiles) = 1

\* ---- C22: for a completed job with n clips, retrieval of clip index answers
\* with the path of generated_clips[index] exactly when 0 <= index < n and the
\* file exists, with the out-of-range error (400) when index < 0 or index >= n,
\* and with the missing-file error (404) when the index is valid and the file
\* is gone.
C22_SingleRetrieval ==
    [][\A j \in JobIds :
          (AnswerStep("download", j) /\ HasJob(j) /\ db[j].status = COMPLETED) =>
              LET i == answer'.body[1].clip_index
                  n == Len(db[j].generated_clips)
              IN  IF i < 0 \/ i >= n
                  THEN answer'.code = 400 /\ answer'.body[1].path = None
                  ELSE IF db[j].generated_clips[i + 1].path \in clipFiles
                  THEN /\ answer'.code = 200
                       /\ answer'.body[1].path = Some(db[j].generated_clips[i + 1].path)
                  ELSE answer'.code = 404 /\ answer'.body[1].path = None]_vars

\* C22 witness: of a completed job with two clips the first file is gone; clip
\* index 0 was answered 404
C22_Witness ==
    \E j \in JobIds :
        /\ HasJob(j) /\ db[j].status = COMPLETED /\ Len(db[j].generated_clips) = 2
        /\ db[j].generated_clips[1].path \notin clipFiles
        /\ db[j].generated_clips[2].path \in clipFiles
        /\ answer = Answer("download", j, 404, Some([clip_index |-> 0, path |-> None]))

\* The job writes of ClipGenerator
StoreOps == {"_update_job_status", "_update_job_success", "_update_job_failure"}

\* The caller of the last call got the named error
Raised(condition) == Some([raised |-> condition])

\* ---- C23: a job write requested for a job id that has no row fails with
\* JobNotFound; it is not silently ignored.
\* Stated as the claim states it; the code violates it (the write returns None).
C23_MissingJobWriteFails ==
    [][\A j \in JobIds : \A op \in StoreOps :
          (AnswerStep(op, j) /\ ~HasJob(j)) => answer'.body = Raised("JobNotFound")]_vars

\* ---- C24: a job write requested for a job that is already completed or failed
\* is rejected with InvalidTransition and leaves the row as it was.
\* Stated as the claim states it; the code violates it (the row is overwritten).
C24_TerminalJobWriteRejected ==
    [][\A j \in JobIds : \A op \in StoreOps :
          (answer'.op = op /\ answer'.job_id = j
              /\ HasJob(j) /\ db[j].status \in Terminal) =>
              /\ db' = db
              /\ answer'.body = Raised("InvalidTransition")]_vars

\* ---- C25: a submission that is answered with success has created the row,
\* pending and with input_file the submitted reference, before the run starts,
\* and the answer carries the job id and status pending; a submission that is
\* answered with an error leaves no row for it.
\* Stated as the claim states it; the code violates it (ClipGenerator(db) raising
\* after the commit).
C25_SubmitCreatesOrLeavesNothing ==
    [][\A j \in JobIds :
          (pc[j] = "new" /\ pc'[j] # "new") =>
              /\ answer'.op = "generate" /\ answer'.job_id = j
              /\ answer'.code \in {200, 400}
              /\ answer'.code = 200 =>
                    /\ j \in DOMAIN db'
                    /\ db'[j].status = PENDING
                    /\ db'[j].input_file = video_path'[j]
                    /\ db'[j].input_file \in InputRefs
                    /\ pc'[j] = "queued"
                    /\ answer'.body = Some([job_id |-> j, status |-> "pending"])
              /\ answer'.code = 400 => j \notin DOMAIN db']_vars

\* ---- C26: every job whose row was created as pending eventually is completed
\* or failed, the process running on and every call of the run returning.
\* Stated as the claim states it; the code violates it (a row committed by a
\* submission that then failed is never run).
C26_PendingReachesTerminal ==
    \A j \in JobIds :
        (HasJob(j) /\ db[j].status = PENDING)
            ~> (HasJob(j) /\ db[j].status \in Terminal)

\* ---- C27: get_output_path(job_id, filename) returns a value determined by its
\* arguments, inside the directory <output dir>/<job_id>, and creates that
\* directory; for two distinct job ids the paths differ, whatever the filenames.
\* Stated as the claim states it; the code violates it (an absolute filename).
PathsOfJobsDistinct ==
    \A j, k \in JobIds : \A f, g \in CallFilenames :
        j # k => GetOutputPath(j, f) # GetOutputPath(k, g)

C27_OutputPathInJobDir ==
    /\ []PathsOfJobsDistinct
    /\ [][\A j \in JobIds :
            AnswerStep("get_output_path", j) =>
                /\ JobDir(j) \in dirs'
                /\ answer'.body[1].path
                      = OutputDir \o "/" \o j \o "/" \o answer'.body[1].filename]_vars

\* ---- C28: a status query changes no job row (nor anything else the service
\* keeps), and its snapshot is the row it read, field by field: two queries of
\* a job with no write in between give identical snapshots.
SnapshotOfRow(snapshot, job) ==
    /\ snapshot.status = job.status
    /\ snapshot.status_message = job.status_message
    /\ snapshot.error_message = job.error_message
    /\ snapshot.completed_at = job.completed_at
    /\ IF job.generated_clips = <<>>
       THEN snapshot.generated_clips = None
       ELSE snapshot.generated_clips = Some(job.generated_clips)

C28_StatusQueryReadsOnly ==
    [][\A j \in JobIds :
          AnswerStep("status", j) =>
              /\ UNCHANGED <<db, dbUp, files, clipFiles, pc, runVars, locked, reply, dirs>>
              /\ IF HasJob(j)
                 THEN /\ answer'.code = 200
                      /\ answer'.body # None
                      /\ answer'.body[1].job_id = j
                      /\ SnapshotOfRow(answer'.body[1], db[j])
                 ELSE answer'.code = 404 /\ answer'.body = None]_vars

\* C28 witness: the last answer is the snapshot of a processing job taken while
\* its run is trimming, and the row is as the snapshot says
C28_Witness ==
    \E j \in JobIds :
        /\ answer.op = "status" /\ answer.job_id = j /\ answer.code = 200
        /\ HasJob(j) /\ db[j].status = PROCESSING /\ pc[j] = "trim"
        /\ SnapshotOfRow(answer.body[1], db[j])

\* ---- C29: a status query for a failed job does not raise: it is answered 200
\* with status failed and exactly the error_message recorded for the job.
C29_FailedJobInspectable ==
    [][\A j \in JobIds :
          (AnswerStep("status", j) /\ HasJob(j) /\ db[j].status = FAILED) =>
              /\ answer'.code = 200
              /\ answer'.body # None
              /\ answer'.body[1].status = "failed"
              /\ answer'.body[1].error_message # None
              /\ answer'.body[1].error_message = Some(err[j])
              /\ answer'.body[1].error_message = db[j].error_message]_vars

\* C29 witness: the last answer is the snapshot of a job that failed in transcription
C29_Witness ==
    \E j \in JobIds :
        /\ HasJob(j) /\ db[j].status = FAILED
        /\ answer.op = "status" /\ answer.job_id = j /\ answer.code = 200
        /\ answer.body[1].status = "failed"
        /\ answer.body[1].error_message = Some("Transcription failed: " \o TranscribeError)

\* ---- C30: for two jobs that are both live, neither the fetch nor the deletion
\* of one overwrites or removes the resolved input file the run of the other
\* reads, also when the cache filenames derived from their URLs coincide.
\* Stated as the claim states it; the code violates it (the cache filename is
\* derived from the URL alone, downloader.py:213-241).
ReadingStages ==
    {"setinput", "stage2", "transcribe", "stage3", "find_clips", "stage4",
     "trim_open", "trim"}

\* Job j has a row, is not finished, and its run works on a file it fetched
ReadsFetchedInput(j) ==
    /\ HasJob(j)
    /\ db[j].status \notin Terminal
    /\ pc[j] \in ReadingStages
    /\ Call("download", 0, "ok") \in calls[j]
    /\ video_path[j] \in files

\* This step is a download of job k that opened path p for writing
FetchWrites(k, p) ==
    /\ pc[k] = "download"
    /\ pc'[k] # "download"
    /\ \E o \in {"ok", "too_large_stream", "error_midstream"},
          r \in Responses, t \in Timestamps :
           /\ Call("download", 0, o) \in calls'[k]
           /\ DownloadTarget(k, r, t) = p

C30_FetchedInputsIndependent ==
    [][\A j, k \in JobIds :
          ( /\ j # k
            /\ ReadsFetchedInput(j)
            /\ j \in DOMAIN db'
            /\ HasJob(k)
            /\ db[k].status \notin Terminal ) =>
              /\ video_path[j] \in files'
              /\ ~FetchWrites(k, video_path[j])]_vars

\* ---- C31: no automatic retry.  In one run the download, the transcription
\* black box and the segmentation black box are each called at most once, and
\* the trim black box at most once for each detected segment, whatever the
\* outcome of the call.
CallsOf(j, box) == {c \in calls[j] : c.box = box}

C31_NoAutomaticRetry ==
    \A j \in JobIds :
        /\ \A box \in {"download", "transcribe", "find_clips"} :
               Cardinality(CallsOf(j, box)) <= 1
        /\ \A c, d \in CallsOf(j, "trim") : c.arg = d.arg => c = d
        /\ \A c \in CallsOf(j, "trim") : c.arg \in 1..Len(clips[j])
        /\ Cardinality(CallsOf(j, "trim")) <= Len(clips[j])

\* C31 witness: a finished run that downloaded, transcribed, segmented into at
\* least two clips and had one trim fail and a later one succeed
C31_Witness ==
    \E j \in JobIds :
        /\ pc[j] = "done"
        /\ Call("download", 0, "ok") \in calls[j]
        /\ Call("transcribe", 0, "ok") \in calls[j]
        /\ Len(clips[j]) >= 2
        /\ Call("trim", 1, "error") \in calls[j]
        /\ Call("trim", 2, "ok") \in calls[j]
        /\ Cardinality(CallsOf(j, "trim")) = Len(clips[j])

\* ---- C32: every artifact recorded for a job has 0 <= start_time < end_time
\* and duration = end_time - start_time; a segment with start_time >= end_time
\* or start_time < 0 is a per-item trim failure: the black box is not called
\* for it, no artifact is made of it, and the run goes on to the next segment.
ValidArtifact(a) ==
    /\ 0 <= a.start_time
    /\ a.start_time < a.end_time
    /\ a.duration = a.end_time - a.start_time

InvalidSegment(clip) == clip.start_time < 0 \/ clip.start_time >= clip.end_time

\* The artifacts of job j: those collected by the run and those in its row
ArtifactsOf(j) ==
    {generated[j][n] : n \in 1..Len(generated[j])}
        \cup (IF HasJob(j)
              THEN {db[j].generated_clips[n] : n \in 1..Len(db[j].generated_clips)}
              ELSE {})

C32_ArtifactsHaveValidTimes ==
    \A j \in JobIds :
        /\ \A a \in ArtifactsOf(j) : ValidArtifact(a)
        /\ \A i \in 1..Len(clips[j]) :
               InvalidSegment(clips[j][i]) =>
                   /\ \A r \in TrimOutcomes : Call("trim", i, r) \notin calls[j]
                   /\ idx[j] > i => Call("trim", i, "rejected") \in calls[j]
                   /\ \A a \in ArtifactsOf(j) :
                          a.filename # "clip_" \o j \o "_" \o Pad3(i) \o ".mp4"
                   /\ (idx[j] = i + 1 /\ i < Len(clips[j])) => pc[j] = "trim"

\* C32 witness: a job completed with the one artifact of its second segment,
\* the first segment having a negative start
C32_Witness ==
    \E j \in JobIds :
        /\ HasJob(j) /\ db[j].status = COMPLETED
        /\ clips[j] = <<Clip(0 - 1, 2), Clip(0, 1)>>
        /\ Call("trim", 1, "rejected") \in calls[j]
        /\ Len(db[j].generated_clips) = 1
        /\ db[j].generated_clips[1].filename = ClipFilename(j, 2)
        /\ db[j].generated_clips[1].duration = 1

\* ---- C33: the transcription black box is never called on an input that does
\* not exist or is not a regular file: the wrapper raises first.  A job whose
\* local input is an existing directory passes stage 1 and fails in the
\* transcription stage without the black box being called.
TranscribeStep(j) == pc[j] = "transcribe" /\ pc'[j] # "transcribe"

IsDirectoryJob(j) == HasJob(j) /\ db[j].input_file \in Directories

C33_TranscribeOnlyRegularFiles ==
    [][\A j \in JobIds :
          /\ TranscribeStep(j) =>
                IF video_path[j] \in files /\ video_path[j] \notin Directories
                THEN \E o \in TranscribeOutcomes :
                         calls'[j] = calls[j] \cup {Call("transcribe", 0, o)}
                ELSE /\ calls'[j] = calls[j] \cup {Call("transcribe", 0, "rejected")}
                     /\ pc'[j] = "except"
          /\ (pc[j] = "queued" /\ pc'[j] # "queued" /\ video_path[j] \in Directories) =>
                pc'[j] = "setinput"
          /\ (TranscribeStep(j) /\ video_path[j] \in Directories) =>
                err'[j] = "Transcription failed: Path is not a file: /videos/talks"
          /\ (pc[j] = "except" /\ pc'[j] = "done" /\ IsDirectoryJob(j)) =>
                /\ db'[j].status = FAILED
                /\ db'[j].error_message =
                       Some("Transcription failed: Path is not a file: /videos/talks")
                /\ calls[j] = {Call("transcribe", 0, "rejected")}]_vars

\* C33 witness: the job submitted with a directory has failed in transcription,
\* its row naming the directory as the resolved input
C33_Witness ==
    \E j \in JobIds :
        /\ IsDirectoryJob(j)
        /\ pc[j] = "done"
        /\ db[j].status = FAILED
        /\ db[j].error_message =
               Some("Transcription failed: Path is not a file: /videos/talks")
        /\ calls[j] = {Call("transcribe", 0, "rejected")}

\* ---- C34: within one job the clip filenames are made of the job id and a
\* 1-based sequence number and are pairwise distinct, so no trim writes to the
\* file of another artifact of the job; the number in an artifact's filename
\* is the position of its segment in the list find_clips returned, so a skipped
\* segment leaves a gap.
NumberedName(j, i) == "clip_" \o j \o "_" \o Pad3(i) \o ".mp4"

\* Artifact a of job j is the clip made of segment i
MadeOfSegment(j, a, i) ==
    /\ i \in 1..Len(clips[j])
    /\ a.filename = NumberedName(j, i)
    /\ a.path = JobDir(j) \o "/" \o NumberedName(j, i)
    /\ a.start_time = clips[j][i].start_time
    /\ a.end_time = clips[j][i].end_time

ArtifactLists(j) ==
    {generated[j]} \cup (IF HasJob(j) THEN {db[j].generated_clips} ELSE {})

C34_ClipNamesByPosition ==
    \A j \in JobIds :
        /\ \A i, k \in 1..MaxSegs :
               i # k => /\ ClipFilename(j, i) # ClipFilename(j, k)
                        /\ GetOutputPath(j, ClipFilename(j, i))
                               # GetOutputPath(j, ClipFilename(j, k))
        /\ \A l \in ArtifactLists(j) :
               /\ \A n \in 1..Len(l) : \E i \in n..Len(clips[j]) : MadeOfSegment(j, l[n], i)
               /\ \A n, m \in 1..Len(l) :
                      n # m => l[n].filename # l[m].filename /\ l[n].path # l[m].path
        /\ \A c \in CallsOf(j, "trim") :
               c.result = "ok" =>
                   \E n \in 1..Len(generated[j]) : MadeOfSegment(j, generated[j][n], c.arg)

\* C34 witness: a completed job of three segments whose second trim failed:
\* its artifacts are numbered 001 and 003
C34_Witness ==
    \E j \in JobIds :
        /\ HasJob(j) /\ db[j].status = COMPLETED
        /\ Len(clips[j]) = 3
        /\ Call("trim", 2, "error") \in calls[j]
        /\ Len(db[j].generated_clips) = 2
        /\ db[j].generated_clips[1].filename = "clip_" \o j \o "_001.mp4"
        /\ db[j].generated_clips[2].filename = "clip_" \o j \o "_003.mp4"

\* ---- C35: the age-based sweep of the fetch cache removes every fetched input
\* file of the cache directory older than the threshold, whatever name the
\* download gave it, removes no file younger than the threshold, and returns
\* the number of files it removed.
\* Stated as the claim states it; the code violates it (only names matching
\* video_* are looked at, downloader.py:309).
SweepStep == answer' # answer /\ answer'.op = "cleanup_old_videos"

C35_SweepRemovesOldCachedFiles ==
    [][SweepStep =>
          LET call      == answer'.body[1]
              threshold == call.max_age_hours * 3600
          IN  /\ \A p \in files \cap CacheEntries :
                     /\ call.age[p] > threshold => p \notin files'
                     /\ call.age[p] < threshold => p \in files'
              /\ files' \subseteq files
              /\ files \ files' \subseteq CacheEntries
              /\ call.deleted_count = Cardinality(files \ files')]_vars

\* ---- C36: the size limit is one threshold in both checks: a download is
\* refused for its size exactly when the advertised Content-Length, or the
\* number of bytes received, is strictly greater than max_size_mb * 1024 * 1024;
\* a body of exactly that many bytes is accepted, and a body one byte larger is
\* refused also when the Content-Length is absent or understates the size.
C36_OneSizeThreshold ==
    answer.op = "download_video" =>
        LET call     == answer.body[1]
            limit    == call.max_size_mb * 1048576
            refused  == call.outcome \in {"too_large_header", "too_large_stream"}
            absent   == call.content_length = None
        IN  /\ call.outcome = "too_large_header" <=>
                   (~absent /\ call.content_length[1] > limit)
            /\ call.outcome = "too_large_stream" <=>
                   /\ absent \/ call.content_length[1] <= limit
                   /\ call.downloaded_size > limit
            /\ call.outcome = "receiving" =>
                   call.downloaded_size <= limit /\ call.downloaded_size < call.body_size
            /\ call.outcome = "ok" =>
                   call.downloaded_size = call.body_size /\ call.body_size <= limit
            /\ call.outcome \in {"receiving", "ok", "too_large_header", "too_large_stream"}
            /\ (call.body_size = limit /\ call.outcome # "receiving"
                   /\ (absent \/ call.content_length[1] <= limit))
                   => call.outcome = "ok"
            /\ (call.body_size = limit + 1 /\ call.outcome # "receiving"
                   /\ (absent \/ call.content_length[1] <= limit))
                   => call.outcome = "too_large_stream"
            /\ refused <=> \/ (~absent /\ call.content_length[1] > limit)
                            \/ call.downloaded_size > limit

\* C36 witness: a body of exactly the limit, received in 8192-byte chunks with
\* no Content-Length, was accepted and written to the cache
C36_Witness ==
    /\ answer.op = "download_video"
    /\ answer.body[1].content_length = None
    /\ answer.body[1].chunk_size = 8192
    /\ answer.body[1].body_size = answer.body[1].max_size_mb * 1048576
    /\ answer.body[1].outcome = "ok"
    /\ CachePath([stem |-> "talk", ext |-> ".mp4"]) \in files

\* ---- C37: a failed trim leaves no file behind: once the trim of a segment is
\* over, a clip file exists at the segment's output path only if the segment's
\* artifact is in the list the trim phase collects; a job that fails with every
\* trim failing has no clip file in its directory.
\* Stated as the claim states it; the code violates it when the removal of the
\* partial output fails (clipsai_mediaeditor_service.py:195-200).
HasArtifactOfSegment(j, i) ==
    \E n \in 1..Len(generated[j]) : generated[j][n].filename = ClipFilename(j, i)

C37_FailedTrimLeavesNoFile ==
    \A j \in JobIds :
        /\ \A i \in 1..Len(clips[j]) :
               (i < idx[j] /\ GetOutputPath(j, ClipFilename(j, i)) \in clipFiles)
                   => HasArtifactOfSegment(j, i)
        /\ (err[j] = "Failed to generate any clips") => ClipPaths(j) \cap clipFiles = {}

\* ---- C38: single-clip and bulk retrieval are refused for every job whose
\* status is not completed (pending, processing or failed): the answer is an
\* error (400) carrying no file and no archive, whatever clip files of the job
\* are on disk.
NotCompleted(j) == HasJob(j) /\ db[j].status \in {PENDING, PROCESSING, FAILED}

C38_RetrievalOnlyWhenCompleted ==
    [][\A j \in JobIds :
          /\ (AnswerStep("download", j) /\ NotCompleted(j)) =>
                 /\ answer'.code = 400
                 /\ answer'.body[1].path = None
          /\ (AnswerStep("download-all", j) /\ NotCompleted(j)) =>
                 /\ answer'.code = 400
                 /\ answer'.body = None
          /\ (AnswerStep("download", j) \/ AnswerStep("download-all", j)) =>
                 (answer'.code = 200 => HasJob(j) /\ db[j].status = COMPLETED)]_vars

\* C38 witness: the first clip of a job still processing was asked for and
\* refused while its file was on disk
C38_Witness ==
    \E j \in JobIds :
        /\ HasJob(j) /\ db[j].status = PROCESSING
        /\ GetOutputPath(j, ClipFilename(j, 1)) \in clipFiles
        /\ answer.op = "download" /\ answer.job_id = j
        /\ answer.code = 400
        /\ answer.body[1].clip_index = 0
        /\ answer.body[1].path = None

====
